---- MODULE Spec2Model ----
(***************************************************************************)
(* A model of spinneret's ecosystem resolution: the GeographicCoverage     *)
(* geometry conversion (eml.py), the Response normalisation of the three   *)
(* map servers (geoenv.py / globalelu.py) and the eml_to_wte_json          *)
(* orchestrator (eml.py).                                                  *)
(*                                                                         *)
(* JSON scalars are tagged records so that a null, a number and a string   *)
(* can sit in the same field and be compared, as Python compares them.     *)
(* A JSON geometry string is modelled by the object json.loads gives back  *)
(* for it; json.dumps/json.loads of finite numbers, strings and nulls is   *)
(* exact, so the object stands for the string.                             *)
(***************************************************************************)
EXTENDS Integers, Sequences, FiniteSets, TLC

VARIABLES
    g,        \* the GeographicCoverage under conversion
    gout,     \* the outcome of the last GeographicCoverage method call
    r,        \* the Response object (json + geometry), mutated in place
    rprev,    \* the Response as it was before the last method call
    rout,     \* the outcome of the last Response method call
    nconv,    \* number of convert_codes_to_values calls made on r
    overwrite,\* eml_to_wte_json: the overwrite argument
    nfiles,   \* number of EML files the glob lists
    outdir,   \* output directory: per EML file "absent", "old" or "written"
    fi,       \* index of the file the loop is at (0 before the first)
    gc,       \* the geographic coverages of the current file
    gi,       \* index of the coverage the inner loop is at
    base,     \* base.data of the current file
    location, \* location.data of the current coverage
    points,   \* areal sampling: the points still to identify
    env,      \* areal sampling: ecosystems_in_envelope and its comments
    pc,       \* the statement eml_to_wte_json is at
    exc,      \* the exception that left eml_to_wte_json, "" if none
    calls,    \* requests made for the current coverage, per map server
    caught,   \* of these, the ones whose exception the handler caught
    answers,  \* what each map server answered for the current point coverage
    alias     \* base.data["location"][-1] is the dict location.data

geoVars  == <<g, gout>>
respVars == <<r, rprev, rout, nconv>>
orchVars == <<overwrite, nfiles, outdir, fi, gc, gi, base, location, points, env,
              pc, exc, calls, caught, answers, alias>>
vars     == <<g, gout, r, rprev, rout, nconv, overwrite, nfiles, outdir, fi, gc,
              gi, base, location, points, env, pc, exc, calls, caught,
              answers, alias>>

-----------------------------------------------------------------------------
(* Bounds of the model *)

MaxCoord    == 1    \* coordinates range over 0..MaxCoord
MaxRing     == 3    \* vertices listed in a gRing text
MaxFeatures == 2    \* results / features in one map-server response
MaxDepth    == 3    \* depths range over -MaxDepth..0

-----------------------------------------------------------------------------
(* JSON scalars *)

\* A string is kept as the sequence of its comma-separated parts, so that
\* str.split(",") and ", ".join(...) can be modelled.  A number is the
\* fraction i/d in lowest terms.
JNull    == [t |-> "null", i |-> 0, d |-> 1, s |-> <<>>]
JInt(n)  == [t |-> "int",  i |-> n, d |-> 1, s |-> <<>>]
JStr(x)  == [t |-> "str",  i |-> 0, d |-> 1, s |-> x]

Abs(n) == IF n < 0 THEN 0 - n ELSE n

RECURSIVE GCD(_, _)
GCD(a, b) == IF b = 0 THEN a ELSE GCD(b, a % b)

\* The number n/d (d # 0).
JNum(n, d) ==
    LET k == GCD(Abs(n), Abs(d))
        sign == IF d < 0 THEN -1 ELSE 1
    IN  [t |-> "int", i |-> sign * (n \div k), d |-> sign * (d \div k),
         s |-> <<>>]

IsNull(v) == v.t = "null"

\* The outcome of a call: a returned value or a raised exception.
Returned(v) == [exc |-> "", val |-> v]
Raised(e)   == [exc |-> e,  val |-> <<>>]

-----------------------------------------------------------------------------
(* eml.py : GeographicCoverage                                             *)
(*                                                                         *)
(* g.gpolygon  : a datasetGPolygon element is present                      *)
(* g.outer     : the datasetGPolygonOuterGRing/gRing text, when present,   *)
(*               as its whitespace-separated items, each item as its       *)
(*               comma-separated components                                *)
(* g.excl      : the datasetGPolygonExclusionGRing/gRing text, likewise    *)
(* g.bounds    : a boundingCoordinates element is present                  *)
(* g.west ...  : float(findtext(...)) or None                              *)
(***************************************************************************)

Coords == 0..MaxCoord

\* One component of a "x,y" item: numeric text, or text float() rejects.
Components == {JInt(c) : c \in Coords} \cup {JStr(<<"x">>)}

NoRing == [present |-> FALSE, items |-> <<>>]
Ring(items) == [present |-> TRUE, items |-> items]

west(c)  == c.west
east(c)  == c.east
north(c) == c.north
south(c) == c.south

outer_gring(c)     == c.outer
exclusion_gring(c) == c.excl

\* geom_type with the bounding coordinates consulted before the polygon.
geom_type_BoundsFirst(c) ==
    IF c.bounds
    THEN IF c.west = c.east /\ c.north = c.south THEN "point" ELSE "envelope"
    ELSE IF c.gpolygon THEN "polygon" ELSE "None"

geom_type(c) ==
    IF c.gpolygon THEN "polygon"
    ELSE IF c.bounds
         THEN IF west(c) = east(c) /\ north(c) = south(c)
              THEN "point"
              ELSE "envelope"
         ELSE "None"

\* The integral rows of the unit -> meters table.
conversion_factors ==
    [u \in {"meter", "dekameter", "hectometer"} |->
        CASE u = "meter"      -> 1
          [] u = "dekameter"  -> 10
          [] u = "hectometer" -> 100]

Units == {"None", "meter", "dekameter", "furlong"}

\* _convert_to_meters with the conversion factor left out.
_convert_to_meters_Unconverted(x, from_units) ==
    IF IsNull(x) THEN JNull ELSE x

_convert_to_meters(x, from_units) ==
    IF IsNull(x) THEN JNull
    ELSE IF from_units \in DOMAIN conversion_factors
         THEN JInt(x.i * conversion_factors[from_units])
         ELSE x

altitude_minimum(c) == _convert_to_meters(c.altMin, c.units)
altitude_maximum(c) == _convert_to_meters(c.altMax, c.units)

\* A wire geometry: the ESRI JSON object, or Python None (shape "None").
NoGeometry ==
    [shape |-> "None", xmin |-> JNull, ymin |-> JNull, xmax |-> JNull,
     ymax |-> JNull, zmin |-> JNull, zmax |-> JNull, rings |-> <<>>,
     wkid |-> 0]

\* _to_esri_envelope with the north and east coordinates exchanged.
_to_esri_envelope_Swapped(c) ==
    [shape |-> "envelope",
     xmin |-> c.west, ymin |-> c.south,
     xmax |-> c.north, ymax |-> c.east,
     zmin |-> _convert_to_meters(c.altMin, c.units),
     zmax |-> _convert_to_meters(c.altMax, c.units),
     rings |-> <<>>, wkid |-> 4326]

_to_esri_envelope(c) ==
    [shape |-> "envelope",
     xmin |-> west(c), ymin |-> south(c),
     xmax |-> east(c), ymax |-> north(c),
     zmin |-> altitude_minimum(c), zmax |-> altitude_maximum(c),
     rings |-> <<>>, wkid |-> 4326]

\* The first exception the item loop of _format_ring raises, "" if none:
\* float() of non-numeric text is a ValueError, a missing second component
\* an IndexError; the handler only names TypeError, which float(str) never
\* raises.
RECURSIVE ItemsError(_)
ItemsError(items) ==
    IF items = <<>> THEN ""
    ELSE LET x == Head(items) IN
         IF x[1].t # "int" THEN "ValueError"
         ELSE IF Len(x) < 2 THEN "IndexError"
         ELSE IF x[2].t # "int" THEN "ValueError"
         ELSE ItemsError(Tail(items))

\* _format_ring without the closing step.
_format_ring_NoClosure(gring) ==
    LET e == ItemsError(gring.items) IN
    IF e # "" THEN Raised(e)
    ELSE IF gring.items = <<>> THEN Raised("IndexError")
    ELSE Returned([k \in 1..Len(gring.items) |->
                      <<gring.items[k][1].i, gring.items[k][2].i>>])

_format_ring(gring) ==
    LET e == ItemsError(gring.items) IN
    IF e # "" THEN Raised(e)
    ELSE IF gring.items = <<>> THEN Raised("IndexError")
    ELSE LET ring == [k \in 1..Len(gring.items) |->
                         <<gring.items[k][1].i, gring.items[k][2].i>>]
         IN  IF ring[1] # ring[Len(ring)]
             THEN Returned(Append(ring, ring[1]))
             ELSE Returned(ring)

\* _to_esri_polygon that adds the altitudes as zmin and zmax, the way
\* _to_esri_envelope does.
_to_esri_polygon_WithZ(c) ==
    IF outer_gring(c).present
    THEN LET o == _format_ring(outer_gring(c)) IN
         IF o.exc # "" THEN Raised(o.exc)
         ELSE Returned([NoGeometry EXCEPT
                  !.shape = "polygon", !.wkid = 4326, !.rings = <<o.val>>,
                  !.zmin = altitude_minimum(c),
                  !.zmax = altitude_maximum(c)])
    ELSE Returned(NoGeometry)

_to_esri_polygon(c) ==
    IF outer_gring(c).present
    THEN LET o == _format_ring(outer_gring(c)) IN
         IF o.exc # "" THEN Raised(o.exc)
         ELSE IF exclusion_gring(c).present
              THEN LET x == _format_ring(exclusion_gring(c)) IN
                   IF x.exc # "" THEN Raised(x.exc)
                   ELSE Returned([NoGeometry EXCEPT
                            !.shape = "polygon", !.wkid = 4326,
                            !.rings = <<o.val, x.val>>])
              ELSE Returned([NoGeometry EXCEPT
                       !.shape = "polygon", !.wkid = 4326,
                       !.rings = <<o.val>>])
    ELSE Returned(NoGeometry)

to_esri_geometry(c) ==
    IF geom_type(c) = "polygon" THEN _to_esri_polygon(c)
    ELSE IF geom_type(c) = "point" THEN Returned(_to_esri_envelope(c))
    ELSE IF geom_type(c) = "envelope" THEN Returned(_to_esri_envelope(c))
    ELSE Returned(NoGeometry)

-----------------------------------------------------------------------------
(* geoenv.py / globalelu.py : Response                                     *)
(*                                                                         *)
(* resp.module   : the module whose Response class the object belongs to   *)
(* resp.source   : the map server that answered ("wte", "ecu", "emu")      *)
(* resp.json     : results (identify), features and fields (query)         *)
(* resp.geometry : the geometry the request was made with                  *)
(*                                                                         *)
(* A raster result carries its pixel value under "Pixel Value" (the key    *)
(* globalelu reads) or "UniqueValue.Pixel Value" (the key geoenv reads)    *)
(* and its six schema attributes as labels[1..6], keyed as the module      *)
(* expects them when result.keys = resp.module.                            *)
(***************************************************************************)

JAbsent == [t |-> "absent", i |-> 0, d |-> 1, s |-> <<>>]

ToSet(q) == {q[k] : k \in 1..Len(q)}

\* list(set(...)): the elements of S in an order the program does not fix.
Orderings(S) ==
    {q \in [1..Cardinality(S) -> S] : \A e \in S : \E k \in DOMAIN q : q[k] = e}

WteSchemaSize == 6

\* _json_extract(self.json, key) for the pixel-value key of a raster response:
\* the values found under that key, in document order.
_json_extract_pixel(resp, key) ==
    LET vals == [k \in 1..Len(resp.json.results) |->
                    IF key = "Pixel Value"
                    THEN resp.json.results[k].pixel
                    ELSE resp.json.results[k].uvpixel]
    IN  SelectSeq(vals, LAMBDA v : v.t # "absent")

\* _json_extract(self.json, "CSU_Descriptor") of a coastal response.
_json_extract_csu(resp) ==
    [k \in 1..Len(resp.json.features) |-> resp.json.features[k].CSU_Descriptor]

PixelKey(module) ==
    IF module = "geoenv" THEN "UniqueValue.Pixel Value" ELSE "Pixel Value"

\* self.json["features"] of a body without that member is a KeyError.
has_ecosystem(resp, source) ==
    IF source = "wte"
    THEN LET res == _json_extract_pixel(resp, PixelKey(resp.module)) IN
         IF Len(res) = 0 THEN Returned(FALSE)
         ELSE IF res[1] = JStr(<<"NoData">>) THEN Returned(FALSE)
         ELSE Returned(TRUE)
    ELSE IF resp.json.error THEN Raised("KeyError")
    ELSE Returned(Len(resp.json.features) > 0)

\* The fixed attribute-name set projected out of one raster result:
\* result["attributes"].get(attribute) for each schema attribute.
WteBundle(resp, result) ==
    [a \in 1..WteSchemaSize |->
        IF result.keys = resp.module THEN result.labels[a] ELSE JNull]

\* pandas: map.loc[map["code"] == code, "name"].iloc[0]
LookupName(codedValues, code) ==
    LET hits == SelectSeq(codedValues, LAMBDA row : row.code = code) IN
    IF hits = <<>> THEN Raised("IndexError") ELSE Returned(hits[1].name)

\* One pass of the loop body of convert_codes_to_values over feature f.
ConvertFeature(resp, f) ==
    LET ocean == IF IsNull(f.OceanName)
                 THEN Returned(JStr(<<"Not an ocean">>))
                 ELSE LookupName(resp.json.fields.OceanName, f.OceanName)
        name  == LookupName(resp.json.fields.Name_2018, f.Name_2018)
    IN  IF ocean.exc # "" THEN Raised(ocean.exc)
        ELSE Returned([f EXCEPT
                 !.OceanName = ocean.val,
                 !.Name_2018 = IF name.exc = "IndexError"
                               THEN JStr(<<"n/a">>) ELSE name.val])

\* The loop of convert_codes_to_values from feature k on: the features are
\* rewritten in place, so an exception leaves the earlier ones rewritten.
RECURSIVE ConvertFrom(_, _, _)
ConvertFrom(resp, features, k) ==
    IF k > Len(features) THEN [exc |-> "", val |-> features]
    ELSE LET c == ConvertFeature(resp, features[k]) IN
         IF c.exc # "" THEN [exc |-> c.exc, val |-> features]
         ELSE ConvertFrom(resp, [features EXCEPT ![k] = c.val], k + 1)

\* convert_codes_to_values(source="emu"): the exception raised, if any, and
\* the features as the call leaves them.
convert_codes_to_values(resp) ==
    ConvertFrom(resp, resp.json.features, 1)

Parsed(f) == [OceanName |-> f.OceanName, Name_2018 |-> f.Name_2018]

Within_Strict(z, f) == z.i < f.UnitTop /\ z.i > f.UnitBottom

\* zmax <= top and zmax >= bottom (likewise for zmin).
Within(z, f) == z.i <= f.UnitTop /\ z.i >= f.UnitBottom

\* The list res of get_ecosystems_for_geometry_z_values before it is made
\* unique: a feature holding both endpoints is appended twice.
RECURSIVE ZValuesList(_, _, _)
ZValuesList(features, zmin, zmax) ==
    IF features = <<>> THEN <<>>
    ELSE LET item == Head(features)
             rest == ZValuesList(Tail(features), zmin, zmax)
         IN  IF IsNull(zmin) \/ IsNull(zmax)
             THEN <<Parsed(item)>> \o rest
             ELSE (IF Within(zmax, item) /\ Within(zmin, item)
                   THEN <<Parsed(item)>> ELSE <<>>)
                  \o (IF Within(zmax, item) \/ Within(zmin, item)
                      THEN <<Parsed(item)>> ELSE <<>>)
                  \o rest

\* get_ecosystems_for_geometry_z_values: the set behind the returned list.
get_ecosystems_for_geometry_z_values(resp) ==
    ToSet(ZValuesList(resp.json.features, resp.geometry.zmin,
                      resp.geometry.zmax))

get_unique_ecosystems_Unfiltered(resp, source) ==
    IF source = "wte"
    THEN [exc |-> "",
          val |-> {WteBundle(resp, resp.json.results[k]) :
                      k \in 1..Len(resp.json.results)},
          features |-> resp.json.features]
    ELSE IF source = "ecu"
    THEN [exc |-> "", val |-> ToSet(_json_extract_csu(resp)),
          features |-> resp.json.features]
    ELSE LET c == convert_codes_to_values(resp) IN
         IF c.exc # ""
         THEN [exc |-> c.exc, val |-> {}, features |-> c.val]
         ELSE [exc |-> "",
               val |-> {Parsed(c.val[k]) : k \in DOMAIN c.val},
               features |-> c.val]

\* get_unique_ecosystems: the exception raised, the set behind the returned
\* list, and the features as the call leaves them.
get_unique_ecosystems(resp, source) ==
    LET has == has_ecosystem(resp, source) IN
    IF has.exc # ""
    THEN [exc |-> has.exc, val |-> {}, features |-> resp.json.features]
    ELSE IF ~has.val
    THEN [exc |-> "", val |-> {}, features |-> resp.json.features]
    ELSE IF source = "wte"
    THEN [exc |-> "",
          val |-> {WteBundle(resp, resp.json.results[k]) :
                      k \in 1..Len(resp.json.results)},
          features |-> resp.json.features]
    ELSE IF source = "ecu"
    THEN [exc |-> "", val |-> ToSet(_json_extract_csu(resp)),
          features |-> resp.json.features]
    ELSE LET c == convert_codes_to_values(resp) IN
         IF c.exc # ""
         THEN [exc |-> c.exc, val |-> {}, features |-> c.val]
         ELSE [exc |-> "",
               val |-> get_ecosystems_for_geometry_z_values(
                           [resp EXCEPT !.json.features = c.val]),
               features |-> c.val]

-----------------------------------------------------------------------------
(* The coverage records the geometry conversion is exercised on.           *)
(* boundingCoordinates, when present, carries four numeric coordinates;    *)
(* a record that lists a polygon co-lists its bounding coordinates.        *)

\* One whitespace-separated item of a gRing text: "x,y", or a malformed one.
Items ==
    {<<JInt(x), JInt(y)>> : x \in Coords, y \in Coords}
        \cup {<<JStr(<<"x">>), JInt(0)>>, <<JInt(0), JStr(<<"x">>)>>, <<JInt(0)>>}

SeqsUpTo(S, n) == UNION {[1..k -> S] : k \in 1..n}

OuterRings == {NoRing} \cup {Ring(it) : it \in SeqsUpTo(Items, MaxRing)}

ExclusionRings ==
    {NoRing,
     Ring(<<<<JInt(0), JInt(0)>>, <<JInt(1), JInt(0)>>, <<JInt(0), JInt(0)>>>>),
     Ring(<<<<JInt(0), JInt(0)>>, <<JInt(0), JInt(1)>>>>),
     Ring(<<<<JInt(0), JInt(0)>>, <<JInt(0), JStr(<<"x">>)>>>>)}

Altitudes == {JNull, JInt(-2), JInt(0)}

BoundedRecords ==
    [description : {"site"}, gpolygon : {FALSE}, outer : {NoRing},
     excl : {NoRing}, bounds : {TRUE},
     west : {JInt(c) : c \in Coords}, east : {JInt(c) : c \in Coords},
     north : {JInt(c) : c \in Coords}, south : {JInt(c) : c \in Coords},
     altMin : Altitudes, altMax : Altitudes, units : Units]

UnboundedRecords ==
    [description : {"site"}, gpolygon : {FALSE}, outer : {NoRing},
     excl : {NoRing}, bounds : {FALSE},
     west : {JNull}, east : {JNull}, north : {JNull}, south : {JNull},
     altMin : Altitudes, altMax : Altitudes, units : Units]

PolygonRecords ==
    [description : {"site"}, gpolygon : {TRUE}, outer : OuterRings,
     excl : ExclusionRings, bounds : {TRUE},
     west : {JInt(0)}, east : {JInt(1)}, north : {JInt(1)}, south : {JInt(0)},
     altMin : {JNull, JInt(-2)}, altMax : {JNull, JInt(0)}, units : {"meter"}]

CoverageRecords == BoundedRecords \cup UnboundedRecords \cup PolygonRecords

NoCall == [op |-> "", exc |-> "", kind |-> "", geom |-> NoGeometry,
           pts |-> <<>>]


-----------------------------------------------------------------------------
(* The responses the normalisation is exercised on *)

MaxCalls == 2   \* convert_codes_to_values calls made on one Response

Depths == (0 - MaxDepth)..0

\* <<UnitTop, UnitBottom>> of a marine unit.
Intervals == {iv \in Depths \X Depths : iv[1] > iv[2]}

\* fields[i].domain.codedValues of the marine response.
OceanCodedValues ==
    <<[code |-> JInt(1), name |-> JStr(<<"Pacific">>)]>>

\* The comma-separated parts of ", ".join(parts): every part but the first
\* starts with the blank that follows the comma.
CommaJoined(parts) ==
    [k \in 1..Len(parts) |-> IF k = 1 THEN parts[k] ELSE " " \o parts[k]]

PartsEpipelagic ==
    <<"Epipelagic", "Warm", "Euhaline", "Oxic", "Low Nitrate",
      "Low Phosphate", "Low Silicate">>

PartsBathypelagic ==
    <<"Bathypelagic", "Very Cold", "Euhaline", "Hypoxic", "High Nitrate",
      "Medium Phosphate", "High Silicate">>

\* A coded name with fewer parts than the seven atomic attributes, and one
\* with more.
PartsShortName == SubSeq(PartsEpipelagic, 1, 2)
PartsLongName == PartsBathypelagic \o <<"Oxic", "Warm">>

NameCodedValues ==
    <<[code |-> JInt(10), name |-> JStr(CommaJoined(PartsEpipelagic))],
      [code |-> JInt(11), name |-> JStr(CommaJoined(PartsBathypelagic))],
      [code |-> JInt(12), name |-> JStr(CommaJoined(PartsShortName))],
      [code |-> JInt(13), name |-> JStr(CommaJoined(PartsLongName))]>>

EmuFeature(o, n, t, b) ==
    [OceanName |-> o, Name_2018 |-> n, UnitTop |-> t, UnitBottom |-> b]

\* Features with every kind of code (mapped, null, unmapped) in the top unit,
\* and features with mapped codes in every unit: units that reach the surface
\* carry one name, deeper units the other.
EmuFeatures ==
    {EmuFeature(o, n, 0, -1) :
        o \in {JNull, JInt(1), JInt(9)}, n \in {JNull, JInt(10), JInt(99)}}
    \cup {EmuFeature(JInt(1), n, 0, -1) : n \in {JInt(12), JInt(13)}}
    \cup {EmuFeature(JInt(1), IF iv[1] = 0 THEN JInt(10) ELSE JInt(11),
                     iv[1], iv[2]) : iv \in Intervals}

\* The marine query asks for orderByFields "UnitTop desc".
OrderedByUnitTop(fs) ==
    \A k \in 1..(Len(fs) - 1) : fs[k].UnitTop >= fs[k + 1].UnitTop

\* The z-range of a query geometry: none, one endpoint, or zmin <= zmax.
ZRanges ==
    {<<JNull, JNull>>, <<JNull, JInt(0)>>, <<JInt(-1), JNull>>}
    \cup {<<JInt(z[1]), JInt(z[2])>> :
            z \in {d \in Depths \X Depths : d[1] <= d[2]}}

QueryGeometry(z) ==
    [NoGeometry EXCEPT !.shape = "envelope", !.wkid = 4326,
        !.xmin = JInt(0), !.ymin = JInt(0), !.xmax = JInt(0), !.ymax = JInt(0),
        !.zmin = z[1], !.zmax = z[2]]

NoFields == [OceanName |-> <<>>, Name_2018 |-> <<>>]

EmuResponse(module, features, geometry) ==
    [module |-> module, source |-> "emu",
     json |-> [results |-> <<>>, features |-> features,
               fields |-> [OceanName |-> OceanCodedValues,
                           Name_2018 |-> NameCodedValues],
               error |-> FALSE],
     geometry |-> geometry]

EcuResponse(module, features, geometry) ==
    [module |-> module, source |-> "ecu",
     json |-> [results |-> <<>>, features |-> features, fields |-> NoFields,
               error |-> FALSE],
     geometry |-> geometry]

\* The answer of a server that reports an error: a body with an "error"
\* member and neither "features" nor "fields".
ErrorResponse(module, source, geometry) ==
    [module |-> module, source |-> source,
     json |-> [results |-> <<>>, features |-> <<>>, fields |-> NoFields,
               error |-> TRUE],
     geometry |-> geometry]

WteResponse(module, results, geometry) ==
    [module |-> module, source |-> "wte",
     json |-> [results |-> results, features |-> <<>>, fields |-> NoFields,
               error |-> FALSE],
     geometry |-> geometry]

\* One identify result as the server a module was written for names its keys.
WteResult(module, pv, labels, oid) ==
    [keys |-> module,
     pixel   |-> IF module = "globalelu" THEN pv ELSE JAbsent,
     uvpixel |-> IF module = "geoenv" THEN pv ELSE JAbsent,
     labels |-> labels, oid |-> oid]

LabelsA ==
    <<JStr(<<"Warm Temperate">>), JStr(<<"Moist">>), JStr(<<"Forest">>),
      JStr(<<"Plains">>), JStr(<<"Warm Temperate Moist">>),
      JStr(<<"Warm Temperate Moist Forest on Plains">>)>>

LabelsB ==
    <<JStr(<<"Cool Temperate">>), JStr(<<"Dry">>), JStr(<<"Grassland">>),
      JStr(<<"Hills">>), JStr(<<"Cool Temperate Dry">>),
      JStr(<<"Cool Temperate Dry Grassland on Hills">>)>>

NoLabels == [a \in 1..WteSchemaSize |-> JNull]

Classified(module) ==
    {WteResult(module, JStr(<<"117">>), LabelsA, 1),
     WteResult(module, JStr(<<"117">>), LabelsA, 2),
     WteResult(module, JStr(<<"233">>), LabelsB, 3)}

NoDataResult(module) == WteResult(module, JStr(<<"NoData">>), NoLabels, 0)

PartsA ==
    <<"steeply sloping", "straight", "high erodibility", "warm moist",
      "moderate river discharge", "moderate wave energy", "moderately tidal",
      "euhaline-oxic-moderate to cool", "moderately turbid",
      "low chlorophyll">>

PartsB ==
    <<"flat", "sinuous", "low erodibility", "cold dry",
      "low river discharge", "high wave energy", "micro-tidal",
      "euhaline-oxic-cold", "clear", "high chlorophyll">>

DescriptorA == JStr(CommaJoined(PartsA))
DescriptorB == JStr(CommaJoined(PartsB))

\* A descriptor with fewer parts than the ten atomic attributes, and one
\* with more parts than the schema has keys.
DescriptorShort == JStr(CommaJoined(SubSeq(PartsA, 1, 9)))
DescriptorLong == JStr(CommaJoined(PartsB \o <<"flat", "clear">>))

\* The texts that occur between the commas of the server's strings.
Texts ==
    ToSet(PartsA) \cup ToSet(PartsB) \cup ToSet(PartsEpipelagic)
        \cup ToSet(PartsBathypelagic)

EcuFeatures ==
    {[CSU_Descriptor |-> DescriptorA, id |-> 1],
     [CSU_Descriptor |-> DescriptorA, id |-> 2],
     [CSU_Descriptor |-> DescriptorB, id |-> 3],
     [CSU_Descriptor |-> DescriptorShort, id |-> 4],
     [CSU_Descriptor |-> DescriptorLong, id |-> 5]}

SeqsFrom0(S, n) == UNION {[1..k -> S] : k \in 0..n}

\* A raster response: no result (outside the extent), one NoData result, or
\* classified results.
WteResponses ==
    UNION {
        {WteResponse(m, rs, QueryGeometry(<<JNull, JNull>>)) :
            rs \in SeqsFrom0(Classified(m), MaxFeatures)
                     \cup {<<NoDataResult(m)>>}} :
        m \in {"geoenv", "globalelu"}}

EcuResponses ==
    {EcuResponse("geoenv", fs, QueryGeometry(<<JNull, JNull>>)) :
        fs \in SeqsFrom0(EcuFeatures, MaxFeatures)}
    \cup {ErrorResponse("geoenv", "ecu", QueryGeometry(<<JNull, JNull>>))}

\* A polygon coverage whose altitudes both lie at the deepest depth.
PolygonAtDepth ==
    [description |-> "site", gpolygon |-> TRUE,
     outer |-> Ring(<<<<JInt(0), JInt(0)>>, <<JInt(1), JInt(0)>>,
                      <<JInt(1), JInt(1)>>>>),
     excl |-> NoRing, bounds |-> TRUE,
     west |-> JInt(0), east |-> JInt(1), north |-> JInt(1), south |-> JInt(0),
     altMin |-> JInt(0 - MaxDepth), altMax |-> JInt(0 - MaxDepth),
     units |-> "meter"]

\* The marine responses: to a query with an envelope of every z-range, and
\* to a query with the geometry of a polygon coverage (query puts the
\* geometry it is given into the payload and into the Response).
EmuResponses ==
    {EmuResponse("geoenv", fs, geometry) :
        fs \in {q \in SeqsFrom0(EmuFeatures, MaxFeatures) : OrderedByUnitTop(q)},
        geometry \in {QueryGeometry(z) : z \in ZRanges}
                        \cup {to_esri_geometry(PolygonAtDepth).val}}

Responses == WteResponses \cup EcuResponses \cup EmuResponses

NoResult == [op |-> "", exc |-> "", val |-> <<>>]

IdleCoverage == CHOOSE c \in UnboundedRecords : TRUE
IdleResponse == WteResponse("geoenv", <<>>, NoGeometry)

NoCalls == [b \in {"wte", "ecu", "emu"} |-> 0]
NoAnswers == [b \in {"wte", "ecu", "emu"} |-> ""]
\* returned: the classes the raster server has answered for the points
\* sampled so far (kept for the claims; the program does not read it).
NoEnvelope == [ecosystems |-> <<>>, comments |-> <<>>, returned |-> {}]
NoLocation ==
    [identifier |-> JNull, description |-> "", geometry_type |-> "None",
     comments |-> <<>>, ecosystem |-> <<>>]
NoBase == [dataset |-> 0, location |-> <<>>]

\* eml_to_wte_json not running.
IdleOrchestrator ==
    /\ overwrite = FALSE
    /\ nfiles = 0
    /\ outdir = <<>>
    /\ fi = 0
    /\ gc = <<>>
    /\ gi = 0
    /\ base = NoBase
    /\ location = NoLocation
    /\ points = <<>>
    /\ env = NoEnvelope
    /\ pc = "idle"
    /\ exc = ""
    /\ calls = NoCalls
    /\ caught = NoCalls
    /\ answers = NoAnswers
    /\ alias = FALSE

-----------------------------------------------------------------------------
(* utilities.py : geometry helpers                                         *)

\* json.loads(None) raises TypeError.
_get_geometry_type(geometry) ==
    IF geometry.shape = "None" THEN Raised("TypeError")
    ELSE IF ~IsNull(geometry.xmin) THEN Returned("esriGeometryEnvelope")
    ELSE IF geometry.shape = "polygon" THEN Returned("esriGeometryPolygon")
    ELSE Returned("None")

_is_point_location(geometry) ==
    LET ty == _get_geometry_type(geometry) IN
    IF ty.exc # "" THEN ty
    ELSE IF ty.val # "esriGeometryEnvelope" THEN Returned(FALSE)
    ELSE Returned(geometry.xmin = geometry.xmax
                  /\ geometry.ymin = geometry.ymax)

\* Sum of two numbers.
JAdd(a, b) == JNum(a.i * b.d + b.i * a.d, a.d * b.d)

\* The half-width, in degrees, of the bounds of a buffer of `buffer`
\* kilometers drawn around a point in a metric projection and projected
\* back: positive for a positive buffer.  One hundredth of a degree per
\* kilometer stands for the width the projection gives.
BufferDegrees(buffer) == JNum(buffer.i, buffer.d * 100)

\* convert_point_to_envelope that leaves a point location as it is.
convert_point_to_envelope_Unbuffered(geometry, buffer) ==
    LET pt == _is_point_location(geometry) IN
    IF pt.exc # "" THEN pt ELSE Returned(geometry)

\* convert_point_to_envelope: a point location is replaced by the bounds of
\* the buffer around it; the other members of the geometry are kept.
convert_point_to_envelope(geometry, buffer) ==
    LET pt == _is_point_location(geometry) IN
    IF pt.exc # "" THEN pt
    ELSE IF ~pt.val \/ IsNull(buffer) THEN Returned(geometry)
    ELSE LET w == BufferDegrees(buffer)
             minus == [w EXCEPT !.i = 0 - w.i]
         IN  Returned([geometry EXCEPT
                 !.xmin = JAdd(geometry.xmin, minus),
                 !.ymin = JAdd(geometry.ymin, minus),
                 !.xmax = JAdd(geometry.xmax, w),
                 !.ymax = JAdd(geometry.ymax, w)])

\* The geometry member of the payload query builds: the coastal query
\* buffers a point location by 0.5, the marine query sends the geometry as
\* it is given.
QueryPayload(geometry, map_server) ==
    IF map_server = "ecu"
    THEN convert_point_to_envelope(geometry, JNum(1, 2))
    ELSE LET ty == _get_geometry_type(geometry) IN
         IF ty.exc # "" THEN Raised(ty.exc) ELSE Returned(geometry)

RECURSIVE SumOver(_, _)
SumOver(f, n) == IF n = 0 THEN 0 ELSE f[n] + SumOver(f, n - 1)

\* shapely's Polygon(bounds).centroid as a pair of numbers: the centroid of
\* the area when the ring encloses one, else the centroid of the ring's
\* segments weighted by their length, else (all vertices equal) the vertex.
Centroid(bounds) ==
    LET n == Len(bounds)
        nxt(k) == bounds[(k % n) + 1]
        cross == [k \in 1..n |->
                    bounds[k][1] * nxt(k)[2] - nxt(k)[1] * bounds[k][2]]
        area2 == SumOver(cross, n)
        cx == SumOver([k \in 1..n |-> (bounds[k][1] + nxt(k)[1]) * cross[k]], n)
        cy == SumOver([k \in 1..n |-> (bounds[k][2] + nxt(k)[2]) * cross[k]], n)
        far == {k \in 1..n : bounds[k] # bounds[1]}
    IN  IF area2 # 0
        THEN <<JNum(cx, 3 * area2), JNum(cy, 3 * area2)>>
        ELSE IF far = {}
        THEN <<JInt(bounds[1][1]), JInt(bounds[1][2])>>
        ELSE LET j  == CHOOSE k \in far : TRUE
                 dx == bounds[j][1] - bounds[1][1]
                 dy == bounds[j][2] - bounds[1][2]
                 pos == [k \in 1..n |-> (bounds[k][1] - bounds[1][1]) * dx
                                        + (bounds[k][2] - bounds[1][2]) * dy]
                 len == [k \in 1..n |-> Abs(pos[(k % n) + 1] - pos[k])]
                 num == SumOver([k \in 1..n |->
                            len[k] * (pos[k] + pos[(k % n) + 1])], n)
                 den == 2 * SumOver(len, n) * (dx * dx + dy * dy)
             IN  <<JNum(bounds[1][1] * den + num * dx, den),
                   JNum(bounds[1][2] * den + num * dy, den)>>

PointGeometry(x, y, geometry) ==
    [shape |-> "envelope", xmin |-> x, ymin |-> y, xmax |-> x, ymax |-> y,
     zmin |-> geometry.zmin, zmax |-> geometry.zmax, rings |-> <<>>,
     wkid |-> geometry.wkid]

\* The vertices of the outer ring without the last, or the four corners of
\* the envelope, followed by the centroid; Polygon() rejects fewer than
\* three vertices.
_polygon_or_envelope_to_points(geometry) ==
    LET ty == _get_geometry_type(geometry) IN
    IF ty.exc # "" THEN Raised(ty.exc)
    ELSE IF ty.val = "None" THEN Raised("UnboundLocalError")
    ELSE
    LET ring == geometry.rings[1]
        bounds == IF ty.val = "esriGeometryPolygon"
                  THEN SubSeq(ring, 1, Len(ring) - 1)
                  ELSE <<<<geometry.xmin.i, geometry.ymin.i>>,
                         <<geometry.xmax.i, geometry.ymin.i>>,
                         <<geometry.xmax.i, geometry.ymax.i>>,
                         <<geometry.xmin.i, geometry.ymax.i>>>>
    IN  IF Len(bounds) < 3 THEN Raised("ValueError")
        ELSE LET c == Centroid(bounds) IN
             Returned([k \in 1..Len(bounds) |->
                          PointGeometry(JInt(bounds[k][1]), JInt(bounds[k][2]),
                                        geometry)]
                      \o <<PointGeometry(c[1], c[2], geometry)>>)

-----------------------------------------------------------------------------
(* globalelu.py : the data model (Attributes, Ecosystem, Location, Base)   *)
(*                                                                         *)
(* An Attributes object is the sequence of its {label, annotation} pairs   *)
(* in the order of its keys.                                               *)
(***************************************************************************)

EcuSchemaSize == 11   \* ten atomic attributes and CSU_Descriptor
EmuSchemaSize == 9    \* OceanName, seven atomic attributes, EMU_Descriptor

\* str.strip() of one comma-separated part.
Strip(tok) ==
    IF \E t \in Texts : tok = " " \o t
    THEN CHOOSE t \in Texts : tok = " " \o t
    ELSE tok

Placeholder == JStr(<<"Placeholder">>)

get_annotation(label, source) == Placeholder

NoAttribute == [label |-> JNull, annotation |-> JNull]

\* "|".join(strings)
RECURSIVE PipeJoined(_)
PipeJoined(strings) ==
    IF Len(strings) = 1 THEN strings[1]
    ELSE strings[1] \o "|" \o PipeJoined(Tail(strings))

\* The comma-separated parts of ", ".join(labels).
RECURSIVE CommaSpaceJoined(_)
CommaSpaceJoined(labels) ==
    IF Len(labels) = 1 THEN labels[1].s
    ELSE CommaSpaceJoined(SubSeq(labels, 1, Len(labels) - 1))
         \o <<" " \o Head(labels[Len(labels)].s)>>
         \o Tail(labels[Len(labels)].s)

\* Attributes(source).data as __init__ leaves it.
InitialAttributes(source) ==
    [k \in 1..(IF source = "wte" THEN WteSchemaSize
               ELSE IF source = "ecu" THEN EcuSchemaSize
               ELSE EmuSchemaSize) |-> NoAttribute]

\* The bundle of length zero each set_*_attributes returns on at once:
\* an empty list for wte, an empty string for ecu and emu.
EmptyBundle(source) ==
    IF source = "wte" THEN <<>>
    ELSE IF source = "ecu" THEN JStr(<<>>)
    ELSE [OceanName |-> JAbsent, Name_2018 |-> JAbsent]

\* set_wte_attributes with the composite annotations looked up like the
\* atomic ones.
set_wte_attributes_LookedUp(module, unique) ==
    IF Len(unique) = 0 THEN Returned(InitialAttributes("wte"))
    ELSE Returned([a \in 1..WteSchemaSize |->
                     [label |-> unique[a],
                      annotation |-> get_annotation(unique[a], "wte")]])

\* The composite branches test for the keys "Climate_Re" and "ClassName".
\* globalelu's schema has these keys; geoenv's schema names the composites
\* "Raster.Temp_Moist" and "Raster.ClassName", so there every attribute
\* takes the branch of the atomic ones.
set_wte_attributes(module, unique) ==
    IF Len(unique) = 0 THEN Returned(InitialAttributes("wte"))
    ELSE
    LET atomic == [a \in 1..4 |->
                     [label |-> unique[a],
                      annotation |-> get_annotation(unique[a], "wte")]]
        climate == "(" \o atomic[1].annotation.s[1] \o "|"
                       \o atomic[2].annotation.s[1] \o ")"
        class == climate \o "|" \o atomic[3].annotation.s[1]
                         \o "|" \o atomic[4].annotation.s[1]
    IN  IF module = "geoenv"
        THEN Returned(atomic \o
                <<[label |-> unique[5],
                   annotation |-> get_annotation(unique[5], "wte")],
                  [label |-> unique[6],
                   annotation |-> get_annotation(unique[6], "wte")]>>)
        ELSE Returned(atomic \o
                <<[label |-> unique[5], annotation |-> JStr(<<climate>>)],
                  [label |-> unique[6], annotation |-> JStr(<<class>>)]>>)

\* dict(zip(keys, descriptors)) written over the initial Attributes data.
ZipAttributes(size, descriptors, source) ==
    [k \in 1..size |->
        IF k <= Len(descriptors)
        THEN [label |-> descriptors[k],
              annotation |-> get_annotation(descriptors[k], source)]
        ELSE NoAttribute]

set_ecu_attributes(unique) ==
    IF Len(unique.s) = 0
    THEN Returned(InitialAttributes("ecu"))
    ELSE
    LET descriptors == [k \in 1..Len(unique.s) |-> JStr(<<Strip(unique.s[k])>>)]
        data  == ZipAttributes(EcuSchemaSize, descriptors, "ecu")
        front == SubSeq(data, 1, EcuSchemaSize - 1)
    IN  IF \E k \in DOMAIN front : IsNull(front[k].label)
        THEN Raised("TypeError")
        ELSE Returned([data EXCEPT ![EcuSchemaSize] =
                [label |-> JStr(CommaSpaceJoined(
                               [k \in DOMAIN front |-> front[k].label])),
                 annotation |-> JStr(<<PipeJoined(
                               [k \in DOMAIN front |->
                                   front[k].annotation.s[1]])>>)]])

\* set_emu_attributes that zips the tokens of Name_2018 over the schema from
\* its first key on, without the ocean name in front.
set_emu_attributes_TokensFirst(unique) ==
    IF unique = EmptyBundle("emu") THEN Returned(InitialAttributes("emu"))
    ELSE IF IsNull(unique.Name_2018) THEN Raised("AttributeError")
    ELSE
    LET name == unique.Name_2018.s
        descriptors == [k \in 1..Len(name) |-> JStr(<<Strip(name[k])>>)]
        data  == ZipAttributes(EmuSchemaSize, descriptors, "emu")
        front == SubSeq(data, 1, EmuSchemaSize - 1)
        labels == [k \in DOMAIN front |->
                     IF IsNull(front[k].label) THEN JStr(<<"n/a">>)
                     ELSE front[k].label]
        annotations == [k \in DOMAIN front |->
                          IF IsNull(front[k].annotation) THEN "Placeholder"
                          ELSE front[k].annotation.s[1]]
    IN  Returned([data EXCEPT ![EmuSchemaSize] =
            [label |-> JStr(CommaSpaceJoined(labels)),
             annotation |-> JStr(<<PipeJoined(annotations)>>)]])

set_emu_attributes(unique) ==
    IF unique = EmptyBundle("emu") THEN Returned(InitialAttributes("emu"))
    ELSE IF IsNull(unique.Name_2018) THEN Raised("AttributeError")
    ELSE
    LET name == unique.Name_2018.s
        descriptors == <<unique.OceanName>>
                       \o [k \in 1..Len(name) |-> JStr(<<Strip(name[k])>>)]
        data  == ZipAttributes(EmuSchemaSize, descriptors, "emu")
        front == SubSeq(data, 1, EmuSchemaSize - 1)
        labels == [k \in DOMAIN front |->
                     IF IsNull(front[k].label) THEN JStr(<<"n/a">>)
                     ELSE front[k].label]
        annotations == [k \in DOMAIN front |->
                          IF IsNull(front[k].annotation) THEN "Placeholder"
                          ELSE front[k].annotation.s[1]]
    IN  Returned([data EXCEPT ![EmuSchemaSize] =
            [label |-> JStr(CommaSpaceJoined(labels)),
             annotation |-> JStr(<<PipeJoined(annotations)>>)]])

\* set_attributes whose setters go on past an empty bundle and annotate
\* every field.
set_attributes_Annotated(module, unique, source) ==
    IF unique = EmptyBundle(source)
    THEN Returned([k \in DOMAIN InitialAttributes(source) |->
                     [label |-> JNull,
                      annotation |-> get_annotation(JNull, source)]])
    ELSE IF source = "wte" THEN set_wte_attributes(module, unique)
    ELSE IF source = "ecu" THEN set_ecu_attributes(unique)
    ELSE set_emu_attributes(unique)

set_attributes(module, unique, source) ==
    IF source = "wte" THEN set_wte_attributes(module, unique)
    ELSE IF source = "ecu" THEN set_ecu_attributes(unique)
    ELSE set_emu_attributes(unique)

Ecosystem(source, attributes) ==
    [source |-> source, version |-> JNull, comments |-> <<>>,
     attributes |-> attributes]

\* get_wte/ecu/emu_ecosystems over the list of unique ecosystems.
EcosystemsOf(module, unique, source) ==
    LET outs == [k \in DOMAIN unique |->
                    set_attributes(module, unique[k], source)]
        bad  == {k \in DOMAIN unique : outs[k].exc # ""}
    IN  IF bad # {}
        THEN Raised(outs[CHOOSE k \in bad : \A j \in bad : k <= j].exc)
        ELSE Returned([k \in DOMAIN unique |-> Ecosystem(source, outs[k].val)])

\* get_ecosystems(source): every list the call can return, one for each
\* order list(set(...)) can give, or the exception it raises.
get_ecosystems(resp, source) ==
    LET u == get_unique_ecosystems(resp, source) IN
    IF u.exc # "" THEN {Raised(u.exc)}
    ELSE {EcosystemsOf(resp.module, q, source) : q \in Orderings(u.val)}

get_comments(resp, source) ==
    IF source = "wte"
    THEN LET pv == _json_extract_pixel(resp, "Pixel Value") IN
         IF Len(pv) > 0 /\ pv[1] = JStr(<<"NoData">>)
         THEN JStr(<<"WTE: Location is an area of water.">>)
         ELSE JNull
    ELSE JNull

Location(description, geometry_type) ==
    [identifier |-> JNull, description |-> description,
     geometry_type |-> geometry_type, comments |-> <<>>, ecosystem |-> <<>>]

\* Location.add_comments: None is dropped, a list is spliced in (a None in
\* the list is kept), anything else is appended.
add_comments(loc, comments) ==
    IF IsNull(comments) THEN loc
    ELSE [loc EXCEPT !.comments = Append(@, comments)]

add_comments_list(loc, comments) ==
    [loc EXCEPT !.comments = @ \o comments]

add_ecosystem(loc, ecosystem) ==
    [loc EXCEPT !.ecosystem = @ \o ecosystem]

Base(dataset) == [dataset |-> dataset, location |-> <<>>]

add_location(b, loc) ==
    [b EXCEPT !.location = Append(@, loc)]

\* add_location appends the dict location.data itself, not a copy: while
\* the Location that holds it stays bound (att), what is written to the
\* Location shows in the last entry of the Base.
Aliased(b, loc, att) ==
    IF att THEN [b EXCEPT !.location[Len(b.location)] = loc] ELSE b

-----------------------------------------------------------------------------
(* Calls of the GeographicCoverage methods *)

GeomType ==
    /\ gout' = [NoCall EXCEPT !.op = "geom_type", !.kind = geom_type(g)]
    /\ UNCHANGED <<g, respVars, orchVars>>

ToEsriGeometry ==
    /\ LET res == to_esri_geometry(g) IN
       gout' = [op |-> "to_esri_geometry", exc |-> res.exc, kind |-> "",
                geom |-> IF res.exc = "" THEN res.val ELSE NoGeometry,
                pts |-> <<>>]
    /\ UNCHANGED <<g, respVars, orchVars>>

\* _polygon_or_envelope_to_points on the geometry to_esri_geometry returned.
PolygonOrEnvelopeToPoints ==
    /\ gout.op = "to_esri_geometry"
    /\ gout.exc = ""
    /\ gout.geom.shape # "None"
    /\ LET res == _polygon_or_envelope_to_points(gout.geom) IN
       gout' = [op |-> "_polygon_or_envelope_to_points", exc |-> res.exc,
                kind |-> "", geom |-> gout.geom,
                pts |-> IF res.exc = "" THEN res.val ELSE <<>>]
    /\ UNCHANGED <<g, respVars, orchVars>>

InitGeom ==
    /\ g \in CoverageRecords
    /\ gout = NoCall
    /\ r = IdleResponse
    /\ rprev = IdleResponse
    /\ rout = NoResult
    /\ nconv = 0
    /\ IdleOrchestrator

\* convert_point_to_envelope on the geometry to_esri_geometry returned,
\* without a buffer and with the buffer the coastal query gives.
ConvertPointToEnvelope ==
    /\ gout.op = "to_esri_geometry"
    /\ gout.exc = ""
    /\ \E buffer \in {JNull, JNum(1, 2)} :
          LET res == convert_point_to_envelope(gout.geom, buffer) IN
          gout' = [op |-> "convert_point_to_envelope", exc |-> res.exc,
                   kind |-> IF IsNull(buffer) THEN "None" ELSE "buffer",
                   geom |-> IF res.exc = "" THEN res.val ELSE NoGeometry,
                   pts |-> <<>>]
    /\ UNCHANGED <<g, respVars, orchVars>>

\* query(geometry, map_server) up to the request: the geometry of the
\* payload.
BuildQuery ==
    /\ gout.op = "to_esri_geometry"
    /\ gout.exc = ""
    /\ \E map_server \in {"ecu", "emu"} :
          LET res == QueryPayload(gout.geom, map_server) IN
          gout' = [op |-> "query", exc |-> res.exc, kind |-> map_server,
                   geom |-> IF res.exc = "" THEN res.val ELSE NoGeometry,
                   pts |-> <<>>]
    /\ UNCHANGED <<g, respVars, orchVars>>

NextGeom ==
    GeomType \/ ToEsriGeometry \/ PolygonOrEnvelopeToPoints
        \/ ConvertPointToEnvelope \/ BuildQuery

SpecGeom == InitGeom /\ [][NextGeom]_vars

-----------------------------------------------------------------------------
(* Calls of the Response methods *)

ConvertCodes ==
    /\ r.source = "emu"
    /\ nconv < MaxCalls
    /\ LET c == convert_codes_to_values(r) IN
       /\ r' = [r EXCEPT !.json.features = c.val]
       /\ rout' = [op |-> "convert_codes_to_values", exc |-> c.exc,
                   val |-> <<>>]
    /\ rprev' = r
    /\ nconv' = nconv + 1
    /\ UNCHANGED <<geoVars, orchVars>>

GetEcosystemsForZ ==
    /\ r.source = "emu"
    /\ \E q \in Orderings(get_ecosystems_for_geometry_z_values(r)) :
          rout' = [op |-> "get_ecosystems_for_geometry_z_values",
                   exc |-> "", val |-> q]
    /\ rprev' = r
    /\ UNCHANGED <<r, nconv, geoVars, orchVars>>

GetUniqueEcosystems ==
    /\ (r.source = "emu" /\ has_ecosystem(r, "emu").val) => nconv < MaxCalls
    /\ LET u == get_unique_ecosystems(r, r.source) IN
       /\ r' = [r EXCEPT !.json.features = u.features]
       /\ \E q \in Orderings(u.val) :
             rout' = [op |-> "get_unique_ecosystems", exc |-> u.exc,
                      val |-> q]
    /\ rprev' = r
    /\ nconv' = IF r.source = "emu" /\ has_ecosystem(r, "emu").val
                THEN nconv + 1 ELSE nconv
    /\ UNCHANGED <<geoVars, orchVars>>

HasEcosystem ==
    /\ LET has == has_ecosystem(r, r.source) IN
       rout' = [op |-> "has_ecosystem", exc |-> has.exc,
                val |-> IF has.exc = "" THEN <<has.val>> ELSE <<>>]
    /\ rprev' = r
    /\ UNCHANGED <<r, nconv, geoVars, orchVars>>

\* Attributes(source).set_attributes on one bundle of the list that
\* get_unique_ecosystems returned, or on the empty bundle when the list
\* is empty.
SetAttributes ==
    /\ rout.op = "get_unique_ecosystems" /\ rout.exc = ""
    /\ \E unique \in (IF Len(rout.val) = 0 THEN {EmptyBundle(r.source)}
                      ELSE ToSet(rout.val)) :
          LET out == set_attributes(r.module, unique, r.source) IN
          rout' = [op |-> "set_attributes", exc |-> out.exc,
                   val |-> <<[unique |-> unique, data |-> out.val]>>]
    /\ UNCHANGED <<r, rprev, nconv, geoVars, orchVars>>

\* get_comments("wte") on a raster response.
GetComments ==
    /\ r.source = "wte"
    /\ rout' = [op |-> "get_comments", exc |-> "",
                val |-> <<get_comments(r, "wte")>>]
    /\ rprev' = r
    /\ UNCHANGED <<r, nconv, geoVars, orchVars>>

InitResp ==
    /\ r \in Responses
    /\ rprev = r
    /\ rout = NoResult
    /\ nconv = 0
    /\ g = IdleCoverage
    /\ gout = NoCall
    /\ IdleOrchestrator

NextResp ==
    ConvertCodes \/ GetEcosystemsForZ \/ GetUniqueEcosystems \/ HasEcosystem
        \/ SetAttributes \/ GetComments

SpecResp == InitResp /\ [][NextResp]_vars

-----------------------------------------------------------------------------
(* globalelu.py : identify and query                                       *)
(*                                                                         *)
(* requests.get either returns the server's answer or raises; the classes  *)
(* it raises derive from requests.exceptions.RequestException, none of     *)
(* them from the builtin ConnectionError.                                  *)
(***************************************************************************)

MaxFiles == 2   \* EML files in the input directory

RequestFailures == {"requests.ConnectionError", "requests.Timeout"}

\* What a call of identify or query can raise once the request is made: the
\* builtin ConnectionError the caller's handler names, and what requests
\* raises for a refused or reset connection and for a timeout.
Failures == {"ConnectionError"} \cup RequestFailures

WteAnswers ==
    {<<>>, <<NoDataResult("globalelu")>>,
     <<WteResult("globalelu", JStr(<<"117">>), LabelsA, 1)>>,
     <<WteResult("globalelu", JStr(<<"233">>), LabelsB, 3)>>}

EcuAnswers ==
    {<<>>, <<[CSU_Descriptor |-> DescriptorA, id |-> 1]>>,
     <<[CSU_Descriptor |-> DescriptorA, id |-> 1],
       [CSU_Descriptor |-> DescriptorB, id |-> 3]>>}

EmuAnswers ==
    {<<>>, <<EmuFeature(JInt(1), JInt(10), 0, -1)>>,
     <<EmuFeature(JInt(9), JInt(10), 0, -1)>>}

\* The classes a raster answer reports: the attribute bundles of its results
\* other than NoData.
ClassesOf(resp) ==
    {resp.json.results[k].labels :
        k \in {i \in DOMAIN resp.json.results :
                  resp.json.results[i].pixel # JStr(<<"NoData">>)}}

\* identify(geometry, "wte"): every outcome of the call.
identify(geometry) ==
    LET ty == _get_geometry_type(geometry) IN
    IF ty.exc # "" THEN {Raised(ty.exc)}
    ELSE {Raised(e) : e \in Failures}
         \cup {Returned(WteResponse("globalelu", rs, geometry)) :
                  rs \in WteAnswers}

\* query(geometry, map_server): every outcome of the call.
query(geometry, map_server) ==
    LET sent == QueryPayload(geometry, map_server) IN
    IF sent.exc # "" THEN {Raised(sent.exc)}
    ELSE IF map_server = "ecu"
    THEN {Raised(e) : e \in Failures}
         \cup {Returned(EcuResponse("globalelu", ft, sent.val)) :
                  ft \in EcuAnswers}
    ELSE {Raised(e) : e \in Failures}
         \cup {Returned(EmuResponse("globalelu", ft, sent.val)) :
                  ft \in EmuAnswers}

-----------------------------------------------------------------------------
(* eml.py : eml_to_wte_json                                                *)

RecPoint ==
    [description |-> "site", gpolygon |-> FALSE, outer |-> NoRing,
     excl |-> NoRing, bounds |-> TRUE,
     west |-> JInt(0), east |-> JInt(0), north |-> JInt(0), south |-> JInt(0),
     altMin |-> JNull, altMax |-> JNull, units |-> "None"]

RecEnvelope == [RecPoint EXCEPT !.east = JInt(1), !.north = JInt(1)]

RecPolygon ==
    [RecEnvelope EXCEPT !.gpolygon = TRUE, !.units = "meter",
        !.outer = Ring(<<<<JInt(0), JInt(0)>>, <<JInt(1), JInt(0)>>,
                         <<JInt(1), JInt(1)>>>>)]

\* A point one meter above the sea surface.
RecPointAloft ==
    [RecPoint EXCEPT !.altMin = JInt(1), !.altMax = JInt(1),
                     !.units = "meter"]

RecNone ==
    [RecPoint EXCEPT !.bounds = FALSE, !.west = JNull, !.east = JNull,
        !.north = JNull, !.south = JNull]

\* get_geographic_coverage(file): the coverages of an EML file; a file
\* without any (the function returns None) is the empty sequence.
EmlFiles ==
    {<<>>, <<RecPoint>>, <<RecPoint, RecPoint>>, <<RecEnvelope>>,
     <<RecPolygon>>, <<RecNone>>, <<RecPointAloft>>}

Bump(f, b) == [f EXCEPT ![b] = @ + 1]

\* The outcome is one of a request that was sent.
Requested(out) == out.exc = "" \/ out.exc \in Failures

\* What a map server answered, in short: a raster answer is "empty" (no
\* result), "NoData" or "class"; a vector answer is "empty" or "features".
\* Kept for the claims; the program does not read it.
Answered(f, out, source) ==
    IF out.exc # "" THEN f
    ELSE IF source = "wte"
    THEN [f EXCEPT !["wte"] =
            IF out.val.json.results = <<>> THEN "empty"
            ELSE IF out.val.json.results[1].pixel = JStr(<<"NoData">>)
            THEN "NoData" ELSE "class"]
    ELSE [f EXCEPT ![source] =
            IF out.val.json.features = <<>> THEN "empty" ELSE "features"]

\* An exception leaves eml_to_wte_json.
Propagate(e) ==
    /\ pc' = "raised"
    /\ exc' = e

\* StartFile without the json.dump for a file that has no coverage.
StartFile_Unwritten ==
    /\ pc = "file"
    /\ fi < nfiles
    /\ fi' = fi + 1
    /\ base' = Base(fi + 1)
    /\ IF outdir[fi + 1] # "absent" /\ ~overwrite
       THEN /\ gc' = <<>>
            /\ gi' = 0
            /\ UNCHANGED <<outdir, pc>>
       ELSE \E cov \in EmlFiles :
              /\ gc' = cov
              /\ IF cov = <<>>
                 THEN /\ gi' = 0
                      /\ UNCHANGED <<outdir, pc>>
                 ELSE /\ gi' = 1
                      /\ pc' = "coverage"
                      /\ UNCHANGED outdir
    /\ location' = NoLocation
    /\ points' = <<>>
    /\ env' = NoEnvelope
    /\ calls' = NoCalls
    /\ answers' = NoAnswers
    /\ caught' = NoCalls
    /\ alias' = FALSE
    /\ UNCHANGED <<overwrite, nfiles, exc, geoVars, respVars>>

\* StartFile without the test for an existing output file.
StartFile_Overwriting ==
    /\ pc = "file"
    /\ fi < nfiles
    /\ fi' = fi + 1
    /\ base' = Base(fi + 1)
    /\ \E cov \in EmlFiles :
          /\ gc' = cov
          /\ IF cov = <<>>
             THEN /\ outdir' = [outdir EXCEPT ![fi + 1] = "written"]
                  /\ gi' = 0
                  /\ UNCHANGED pc
             ELSE /\ gi' = 1
                  /\ pc' = "coverage"
                  /\ UNCHANGED outdir
    /\ location' = NoLocation
    /\ points' = <<>>
    /\ env' = NoEnvelope
    /\ calls' = NoCalls
    /\ answers' = NoAnswers
    /\ caught' = NoCalls
    /\ alias' = FALSE
    /\ UNCHANGED <<overwrite, nfiles, exc, geoVars, respVars>>

\* for file in files: ... up to the first coverage of the file.  The locals
\* the previous iteration left behind are dead and are cleared.
StartFile ==
    /\ pc = "file"
    /\ fi < nfiles
    /\ fi' = fi + 1
    /\ base' = Base(fi + 1)
    /\ IF outdir[fi + 1] # "absent" /\ ~overwrite
       THEN /\ gc' = <<>>
            /\ gi' = 0
            /\ UNCHANGED <<outdir, pc>>
       ELSE \E cov \in EmlFiles :
              /\ gc' = cov
              /\ IF cov = <<>>
                 THEN /\ outdir' = [outdir EXCEPT ![fi + 1] = "written"]
                      /\ gi' = 0
                      /\ UNCHANGED pc
                 ELSE /\ gi' = 1
                      /\ pc' = "coverage"
                      /\ UNCHANGED outdir
    /\ location' = NoLocation
    /\ points' = <<>>
    /\ env' = NoEnvelope
    /\ calls' = NoCalls
    /\ answers' = NoAnswers
    /\ caught' = NoCalls
    /\ alias' = FALSE
    /\ UNCHANGED <<overwrite, nfiles, exc, geoVars, respVars>>

\* StartCoverage that sets up the Location of the previous coverage again
\* instead of a new one.
StartCoverage_Reused ==
    /\ pc = "coverage"
    /\ location' = [location EXCEPT !.description = gc[gi].description,
                                   !.geometry_type = geom_type(gc[gi])]
    /\ points' = <<>>
    /\ env' = NoEnvelope
    /\ calls' = NoCalls
    /\ answers' = NoAnswers
    /\ caught' = NoCalls
    /\ pc' = "wte"
    /\ base' = Aliased(base, location', alias)
    /\ UNCHANGED <<overwrite, nfiles, outdir, fi, gc, gi, exc, alias,
                   geoVars, respVars>>

\* for g in gc: location = Location(), a new object with its own dict and
\* lists; its description and geometry type are set.
StartCoverage ==
    /\ pc = "coverage"
    /\ location' = Location(gc[gi].description, geom_type(gc[gi]))
    /\ points' = <<>>
    /\ env' = NoEnvelope
    /\ calls' = NoCalls
    /\ answers' = NoAnswers
    /\ caught' = NoCalls
    /\ pc' = "wte"
    /\ alias' = FALSE
    /\ UNCHANGED <<overwrite, nfiles, outdir, fi, gc, gi, base, exc, geoVars,
                   respVars>>

\* The body shared by the three point-wise backend steps: the try/except
\* around the call and the if r is not None block after it.
AfterCall(loc, out, source, label, next) ==
    IF out.exc = "ConnectionError"
    THEN /\ location' = add_comments(loc,
                 JStr(<<label \o ": Connection error. Please try again.">>))
         /\ caught' = Bump(caught, source)
         /\ pc' = next
         /\ UNCHANGED exc
    ELSE IF out.exc # ""
    THEN /\ Propagate(out.exc)
         /\ location' = loc
         /\ UNCHANGED caught
    ELSE IF has_ecosystem(out.val, source).exc # ""
    THEN /\ Propagate(has_ecosystem(out.val, source).exc)
         /\ location' = loc
         /\ UNCHANGED caught
    ELSE IF has_ecosystem(out.val, source).val
    THEN \E ecosystems \in get_ecosystems(out.val, source) :
           IF ecosystems.exc # ""
           THEN /\ Propagate(ecosystems.exc)
                /\ location' = loc
                /\ UNCHANGED caught
           ELSE /\ location' = add_ecosystem(loc, ecosystems.val)
                /\ pc' = next
                /\ UNCHANGED <<exc, caught>>
    ELSE /\ location' = add_comments(loc,
                 get_comments(out.val, IF source = "emu" THEN "ecu" ELSE source))
         /\ pc' = next
         /\ UNCHANGED <<exc, caught>>

\* if g.geom_type() == "point": identify at the point.
QueryWtePoint ==
    /\ pc = "wte"
    /\ geom_type(gc[gi]) = "point"
    /\ LET loc == add_comments(location, JStr(<<"WTE: Was queried.">>))
           geometry == to_esri_geometry(gc[gi])
       IN  IF geometry.exc # ""
           THEN /\ Propagate(geometry.exc)
                /\ location' = loc
                /\ UNCHANGED <<calls, caught, answers>>
           ELSE \E out \in identify(geometry.val) :
                  /\ calls' = IF Requested(out)
                              THEN Bump(calls, "wte") ELSE calls
                  /\ answers' = Answered(answers, out, "wte")
                  /\ AfterCall(loc, out, "wte", "WTE", "ecu")
    /\ base' = Aliased(base, location', alias)
    /\ UNCHANGED <<overwrite, nfiles, outdir, fi, gc, gi, points, env,
                   alias, geoVars, respVars>>

\* if g.geom_type() == "envelope" or "polygon": the points to sample.
BeginAreal ==
    /\ pc = "wte"
    /\ geom_type(gc[gi]) \in {"envelope", "polygon"}
    /\ location' = add_comments(location, JStr(<<"WTE: Was queried.">>))
    /\ LET geometry == to_esri_geometry(gc[gi]) IN
       IF geometry.exc # ""
       THEN /\ Propagate(geometry.exc)
            /\ UNCHANGED <<points, env>>
       ELSE LET pts == _polygon_or_envelope_to_points(geometry.val) IN
            IF pts.exc # ""
            THEN /\ Propagate(pts.exc)
                 /\ UNCHANGED <<points, env>>
            ELSE /\ points' = pts.val
                 /\ env' = NoEnvelope
                 /\ pc' = "points"
                 /\ UNCHANGED exc
    /\ base' = Aliased(base, location', alias)
    /\ UNCHANGED <<overwrite, nfiles, outdir, fi, gc, gi, calls, caught,
                   answers, alias, geoVars, respVars>>

\* for point in points: one pass of the loop body.
IdentifyPoint ==
    /\ pc = "points"
    /\ points # <<>>
    /\ \E out \in identify(Head(points)) :
         /\ calls' = IF Requested(out) THEN Bump(calls, "wte") ELSE calls
         /\ UNCHANGED answers
         /\ IF out.exc = "ConnectionError"
            THEN /\ location' = add_comments(location,
                        JStr(<<"WTE: Connection error. Please try again.">>))
                 /\ caught' = Bump(caught, "wte")
                 /\ points' = Tail(points)
                 /\ UNCHANGED <<env, pc, exc>>
            ELSE IF out.exc # ""
            THEN /\ Propagate(out.exc)
                 /\ UNCHANGED <<location, caught, points, env>>
            ELSE IF has_ecosystem(out.val, "wte").val
            THEN \E ecosystems \in get_ecosystems(out.val, "wte") :
                   IF ecosystems.exc # ""
                   THEN /\ Propagate(ecosystems.exc)
                        /\ UNCHANGED <<location, caught, points, env>>
                   ELSE /\ env' = [env EXCEPT
                                   !.ecosystems = Append(@, ecosystems.val[1]),
                                   !.returned = @ \cup ClassesOf(out.val)]
                        /\ points' = Tail(points)
                        /\ UNCHANGED <<location, caught, pc, exc>>
            ELSE /\ env' = [env EXCEPT
                            !.comments = Append(@, get_comments(out.val, "wte")),
                            !.returned = @ \cup ClassesOf(out.val)]
                 /\ points' = Tail(points)
                 /\ UNCHANGED <<location, caught, pc, exc>>
    /\ base' = Aliased(base, location', alias)
    /\ UNCHANGED <<overwrite, nfiles, outdir, fi, gc, gi, alias, geoVars,
                   respVars>>

\* EndAreal without list(set(...)) over the ecosystems.
EndAreal_Undeduplicated ==
    /\ pc = "points"
    /\ points = <<>>
    /\ \E comments \in Orderings(ToSet(env.comments)) :
         /\ env' = [env EXCEPT !.comments = comments]
         /\ location' = add_comments_list(
                            add_ecosystem(location, env.ecosystems), comments)
    /\ pc' = "ecu"
    /\ base' = Aliased(base, location', alias)
    /\ UNCHANGED <<overwrite, nfiles, outdir, fi, gc, gi, points, exc,
                   calls, caught, answers, alias, geoVars, respVars>>

\* After the loop: the unique ecosystems and the unique comments are added.
EndAreal ==
    /\ pc = "points"
    /\ points = <<>>
    /\ \E ecosystems \in Orderings(ToSet(env.ecosystems)),
          comments \in Orderings(ToSet(env.comments)) :
         /\ env' = [env EXCEPT !.ecosystems = ecosystems,
                                !.comments = comments]
         /\ location' = add_comments_list(
                            add_ecosystem(location, ecosystems), comments)
    /\ pc' = "ecu"
    /\ base' = Aliased(base, location', alias)
    /\ UNCHANGED <<overwrite, nfiles, outdir, fi, gc, gi, points, exc,
                   calls, caught, answers, alias, geoVars, respVars>>

\* A coverage of no geometry type: neither WTE block is entered.
SkipWte ==
    /\ pc = "wte"
    /\ geom_type(gc[gi]) = "None"
    /\ pc' = "ecu"
    /\ UNCHANGED <<overwrite, nfiles, outdir, fi, gc, gi, base, location,
                   points, env, exc, calls, caught, answers, alias,
                   geoVars, respVars>>

QueryServer(source, label, next) ==
    LET loc == add_comments(location, JStr(<<label \o ": Was queried.">>))
        geometry == to_esri_geometry(gc[gi])
    IN  IF geometry.exc # ""
        THEN /\ Propagate(geometry.exc)
             /\ location' = loc
             /\ UNCHANGED <<calls, caught, answers>>
        ELSE \E out \in query(geometry.val, source) :
               /\ calls' = IF Requested(out) THEN Bump(calls, source)
                           ELSE calls
               /\ answers' = Answered(answers, out, source)
               /\ AfterCall(loc, out, source, label, next)

\* Query the ECU map server.
QueryEcu ==
    /\ pc = "ecu"
    /\ QueryServer("ecu", "ECU", "emu")
    /\ base' = Aliased(base, location', alias)
    /\ UNCHANGED <<overwrite, nfiles, outdir, fi, gc, gi, points, env,
                   alias, geoVars, respVars>>

\* Query the EMU map server.
QueryEmu ==
    /\ pc = "emu"
    /\ QueryServer("emu", "EMU", "append")
    /\ base' = Aliased(base, location', alias)
    /\ UNCHANGED <<overwrite, nfiles, outdir, fi, gc, gi, points, env,
                   alias, geoVars, respVars>>

\* base.add_location(location), then the next coverage if there is one.
AppendLocation ==
    /\ pc = "append"
    /\ base' = add_location(base, location)
    /\ IF gi < Len(gc)
       THEN gi' = gi + 1 /\ pc' = "coverage"
       ELSE pc' = "write" /\ UNCHANGED gi
    /\ alias' = TRUE
    /\ UNCHANGED <<overwrite, nfiles, outdir, fi, gc, location, points, env,
                   exc, calls, caught, answers, geoVars, respVars>>

\* json.dump(base.data, f), then the next file.
WriteFile ==
    /\ pc = "write"
    /\ outdir' = [outdir EXCEPT ![fi] = "written"]
    /\ pc' = "file"
    /\ UNCHANGED <<overwrite, nfiles, fi, gc, gi, base, location, points, env,
                   exc, calls, caught, answers, alias, geoVars, respVars>>

Init ==
    /\ overwrite \in BOOLEAN
    /\ nfiles \in 0..MaxFiles
    /\ outdir \in [1..nfiles -> {"absent", "old"}]
    /\ fi = 0
    /\ gc = <<>>
    /\ gi = 0
    /\ base = NoBase
    /\ location = NoLocation
    /\ points = <<>>
    /\ env = NoEnvelope
    /\ pc = "file"
    /\ exc = ""
    /\ calls = NoCalls
    /\ caught = NoCalls
    /\ answers = NoAnswers
    /\ alias = FALSE
    /\ g = IdleCoverage
    /\ gout = NoCall
    /\ r = IdleResponse
    /\ rprev = IdleResponse
    /\ rout = NoResult
    /\ nconv = 0

Next ==
    \/ StartFile
    \/ StartCoverage
    \/ QueryWtePoint
    \/ BeginAreal
    \/ IdentifyPoint
    \/ EndAreal
    \/ SkipWte
    \/ QueryEcu
    \/ QueryEmu
    \/ AppendLocation
    \/ WriteFile

Spec == Init /\ [][Next]_vars

-----------------------------------------------------------------------------
(* Claims about the geometry conversion (checked under SpecGeom) *)

\* West == east and north == south, as Python compares the four values
\* (None == None holds).
SamePoint(c) == c.west = c.east /\ c.north = c.south

\* The vertices a well-formed gRing text lists, in order.
Vertices(gring) ==
    [k \in 1..Len(gring.items) |-> <<gring.items[k][1].i, gring.items[k][2].i>>]

\* How a ring is emitted for the vertices v: unchanged when v is closed,
\* with one copy of the first vertex appended when v is open.
Closed(v) == IF v[1] = v[Len(v)] THEN v ELSE Append(v, v[1])

C9_PointIsZeroAreaEnvelope ==
    (gout.op = "to_esri_geometry" /\ geom_type(g) = "point") =>
        /\ gout.exc = ""
        /\ gout.geom.shape = "envelope"
        /\ gout.geom.xmin = gout.geom.xmax
        /\ gout.geom.ymin = gout.geom.ymax
        /\ gout.geom.wkid = 4326

C9_Witness ==
    /\ gout.op = "to_esri_geometry"
    /\ ~g.gpolygon /\ g.bounds /\ SamePoint(g)
    /\ g.west # g.north
    /\ gout.geom.shape = "envelope"

\* C10: every ring _to_esri_polygon emits, the outer ring and the exclusion
\* ring, begins and ends with the same vertex: a closed input ring is emitted
\* with its vertices unchanged, an open one with exactly one copy of its
\* first vertex appended.
C10_RingsClosed ==
    (gout.op = "to_esri_geometry" /\ gout.exc = ""
        /\ gout.geom.shape = "polygon") =>
        /\ \A k \in 1..Len(gout.geom.rings) :
              LET ring == gout.geom.rings[k] IN ring[1] = ring[Len(ring)]
        /\ gout.geom.rings[1] = Closed(Vertices(g.outer))
        /\ Len(gout.geom.rings) = (IF g.excl.present THEN 2 ELSE 1)
        /\ g.excl.present => gout.geom.rings[2] = Closed(Vertices(g.excl))

C10_Witness ==
    /\ gout.op = "to_esri_geometry" /\ gout.exc = ""
    /\ gout.geom.shape = "polygon"
    /\ Len(gout.geom.rings) = 2
    /\ Len(gout.geom.rings[1]) = Len(g.outer.items) + 1
    /\ Len(g.outer.items) = 3
    /\ Len(gout.geom.rings[2]) = Len(g.excl.items)

-----------------------------------------------------------------------------
(* Claims about the Response normalisation, checked under SpecResp *)

NoDuplicates(q) == \A i, j \in DOMAIN q : q[i] = q[j] => i = j

HasEntry(codedValues, code) ==
    \E k \in DOMAIN codedValues : codedValues[k].code = code

EntryName(codedValues, code) ==
    codedValues[CHOOSE k \in DOMAIN codedValues :
                    codedValues[k].code = code].name

\* What the documentation promises for an OceanName / Name_2018 code.
ExpectedOcean(resp, code) ==
    IF IsNull(code) \/ ~HasEntry(resp.json.fields.OceanName, code)
    THEN JStr(<<"Not an ocean">>)
    ELSE EntryName(resp.json.fields.OceanName, code)

ExpectedName(resp, code) ==
    IF IsNull(code) \/ ~HasEntry(resp.json.fields.Name_2018, code)
    THEN JStr(<<"n/a">>)
    ELSE EntryName(resp.json.fields.Name_2018, code)

FirstConversion == rout.op = "convert_codes_to_values" /\ nconv = 1

\* C3: a second convert_codes_to_values on a response that one call has
\* already converted completes without raising and leaves every feature as
\* the first call left it.
C3_ConvertIsIdempotent ==
    [][(/\ rout.op = "convert_codes_to_values"
        /\ rout.exc = ""
        /\ rout'.op = "convert_codes_to_values"
        /\ nconv' = nconv + 1)
       => (rout'.exc = "" /\ r'.json.features = r.json.features)]_vars

\* C4: convert_codes_to_values never raises for a missing mapping: a null or
\* unmapped OceanName becomes "Not an ocean", a null or unmapped Name_2018
\* becomes "n/a", and a mapped code becomes the name of its entry.
C4_MissingMappingNeverRaises ==
    FirstConversion =>
        /\ rout.exc = ""
        /\ Len(r.json.features) = Len(rprev.json.features)
        /\ \A k \in DOMAIN r.json.features :
              /\ r.json.features[k].OceanName =
                    ExpectedOcean(rprev, rprev.json.features[k].OceanName)
              /\ r.json.features[k].Name_2018 =
                    ExpectedName(rprev, rprev.json.features[k].Name_2018)

UniqueReturned == rout.op = "get_unique_ecosystems" /\ rout.exc = ""

RawCount(resp) ==
    IF resp.source = "wte" THEN Len(resp.json.results)
    ELSE Len(resp.json.features)

\* The distinct raw attribute bundles of a response, each bundle taken over
\* the attributes get_unique_ecosystems reads for the source.
RawBundles(resp) ==
    IF resp.source = "wte"
    THEN {resp.json.results[k].labels : k \in DOMAIN resp.json.results}
    ELSE IF resp.source = "ecu"
    THEN {resp.json.features[k].CSU_Descriptor : k \in DOMAIN resp.json.features}
    ELSE {<<resp.json.features[k].OceanName, resp.json.features[k].Name_2018>> :
             k \in DOMAIN resp.json.features}

SelectedByDepth(resp, f) ==
    LET zmin == resp.geometry.zmin
        zmax == resp.geometry.zmax
    IN  \/ IsNull(zmin)
        \/ IsNull(zmax)
        \/ (f.UnitBottom <= zmin.i /\ zmin.i <= f.UnitTop)
        \/ (f.UnitBottom <= zmax.i /\ zmax.i <= f.UnitTop)

DecodedPair(resp, f) ==
    [OceanName |-> ExpectedOcean(resp, f.OceanName),
     Name_2018 |-> ExpectedName(resp, f.Name_2018)]

UnmappedOcean(resp) ==
    \E k \in DOMAIN resp.json.features :
        /\ ~IsNull(resp.json.features[k].OceanName)
        /\ ~HasEntry(resp.json.fields.OceanName,
                     resp.json.features[k].OceanName)

ZValuesReturned == rout.op = "get_ecosystems_for_geometry_z_values"

PairsOf(resp, keep(_)) ==
    {Parsed(resp.json.features[k]) :
        k \in {i \in DOMAIN resp.json.features : keep(resp.json.features[i])}}

\* C6: without a vertical range every feature is returned; with a single
\* depth z exactly the units with UnitBottom <= z <= UnitTop are returned, so
\* a depth on the boundary of two adjacent units returns both and a depth
\* strictly inside one unit returns only that unit.
C6_InclusiveSingleDepth ==
    ZValuesReturned =>
        LET zmin == rprev.geometry.zmin
            zmax == rprev.geometry.zmax
        IN  /\ NoDuplicates(rout.val)
            /\ (IsNull(zmin) \/ IsNull(zmax)) =>
                  ToSet(rout.val) = PairsOf(rprev, LAMBDA f : TRUE)
            /\ (~IsNull(zmin) /\ ~IsNull(zmax) /\ zmin = zmax) =>
                  ToSet(rout.val) =
                     PairsOf(rprev, LAMBDA f : /\ f.UnitBottom <= zmin.i
                                               /\ zmin.i <= f.UnitTop)

\* A single depth on the boundary shared by two adjacent units with different
\* names: both are returned.
C6_Witness ==
    /\ ZValuesReturned
    /\ ~IsNull(rprev.geometry.zmin)
    /\ rprev.geometry.zmin = rprev.geometry.zmax
    /\ Len(rprev.json.features) = 2
    /\ rprev.json.features[1].UnitBottom = rprev.geometry.zmin.i
    /\ rprev.json.features[2].UnitTop = rprev.geometry.zmin.i
    /\ rprev.json.features[1].UnitTop > rprev.geometry.zmin.i
    /\ rprev.json.features[2].UnitBottom < rprev.geometry.zmin.i
    /\ Len(rout.val) = 2

\* C7: with a depth range zmin < zmax, exactly the units whose
\* [UnitBottom, UnitTop] intersects [zmin, zmax] are returned.
C7_RangeReturnsIntersectingUnits ==
    ZValuesReturned =>
        LET zmin == rprev.geometry.zmin
            zmax == rprev.geometry.zmax
        IN  (~IsNull(zmin) /\ ~IsNull(zmax) /\ zmin # zmax) =>
               ToSet(rout.val) =
                  PairsOf(rprev, LAMBDA f : /\ f.UnitBottom <= zmax.i
                                            /\ zmin.i <= f.UnitTop)

-----------------------------------------------------------------------------
(* Claims about eml_to_wte_json, checked under Spec *)

ConnectionErrors == {"ConnectionError", "requests.ConnectionError"}

CommentCount(loc, text) ==
    Cardinality({k \in DOMAIN loc.comments : loc.comments[k] = JStr(<<text>>)})

EcosystemCount(loc, source) ==
    Cardinality({k \in DOMAIN loc.ecosystem : loc.ecosystem[k].source = source})

\* The identify calls a coverage needs: one for a point, one for each
\* sampled point of an envelope or polygon.
PointsToSample(c) ==
    IF geom_type(c) = "point" THEN 1
    ELSE IF geom_type(c) = "None" THEN 0
    ELSE Len(_polygon_or_envelope_to_points(to_esri_geometry(c).val).val)

\* Every backend was queried and every caught failure left its comment and
\* no ecosystem.
FailuresRecorded ==
    /\ calls["wte"] = PointsToSample(gc[gi])
    /\ calls["ecu"] = 1
    /\ calls["emu"] = 1
    /\ CommentCount(location, "WTE: Connection error. Please try again.")
          = caught["wte"]
    /\ CommentCount(location, "ECU: Connection error. Please try again.")
          = caught["ecu"]
    /\ CommentCount(location, "EMU: Connection error. Please try again.")
          = caught["emu"]
    /\ EcosystemCount(location, "wte") <= calls["wte"] - caught["wte"]
    /\ caught["ecu"] > 0 => EcosystemCount(location, "ecu") = 0
    /\ caught["emu"] > 0 => EcosystemCount(location, "emu") = 0

\* C1: a backend call that fails with a connection error never ends the
\* run: the failure leaves a connection-error comment and no ecosystem on the
\* Location, the remaining backends and sampled points are still queried,
\* and the Location is appended to the Base.
C1_ConnectionErrorIsRecorded ==
    /\ pc = "raised" => exc \notin ConnectionErrors
    /\ pc = "append" => FailuresRecorded

\* C2: a timeout of a backend call never leaves eml_to_wte_json; it is
\* handled as a connection error is, and the run goes on.
C2_TimeoutIsRecorded ==
    pc = "raised" => exc \notin (RequestFailures \ ConnectionErrors)

-----------------------------------------------------------------------------
(* Claims about the vertical extent, checked under SpecGeom *)

EnvelopeEmitted ==
    /\ gout.op = "to_esri_geometry"
    /\ gout.exc = ""
    /\ gout.geom.shape = "envelope"

\* C11: in every envelope to_esri_geometry emits, zmin and zmax are either
\* both non-null or both null: the vertical extent is carried only if the
\* coverage record has both the minimum and the maximum altitude.
C11_VerticalExtentBothOrNeither ==
    EnvelopeEmitted =>
        /\ IsNull(gout.geom.zmin) <=> IsNull(gout.geom.zmax)
        /\ ~IsNull(gout.geom.zmin) => (~IsNull(g.altMin) /\ ~IsNull(g.altMax))

\* The factor the conversion table lists for a unit.
TableFactor(u) ==
    CASE u = "meter"      -> 1
      [] u = "dekameter"  -> 10
      [] u = "hectometer" -> 100

InTable(u) == u \in {"meter", "dekameter", "hectometer"}

\* What the claim promises for the value x in the units u.
InMeters(x, u) ==
    IF x.t = "null" THEN JNull
    ELSE IF InTable(u) THEN [x EXCEPT !.i = x.i * TableFactor(u)]
    ELSE x

-----------------------------------------------------------------------------
(* Claims about the areal sampling points, checked under SpecGeom *)

PointsCalled == gout.op = "_polygon_or_envelope_to_points"

\* A zero-area envelope at (x, y) with the vertical extent and the spatial
\* reference of the geometry it was sampled from.
IsPointOf(p, x, y, geometry) ==
    /\ p.shape = "envelope"
    /\ p.xmin = x /\ p.xmax = x
    /\ p.ymin = y /\ p.ymax = y
    /\ p.zmin = geometry.zmin /\ p.zmax = geometry.zmax
    /\ p.wkid = geometry.wkid

\* The four corners of an envelope in the order they are sampled.
Corners(e) ==
    <<<<e.xmin, e.ymin>>, <<e.xmax, e.ymin>>,
      <<e.xmax, e.ymax>>, <<e.xmin, e.ymax>>>>

\* C13: _polygon_or_envelope_to_points returns, for an envelope, its 4
\* corners followed by its centroid (the midpoint), and for a polygon whose
\* outer ring is v1..vk,v1 one point per vertex v1..vk in ring order
\* followed by the centroid, the exclusion ring contributing nothing; every
\* point is a zero-area envelope carrying the input's spatialReference,
\* zmin and zmax.
C13_VerticesThenCentroid ==
    PointsCalled =>
        /\ gout.exc = ""
        /\ gout.geom.shape = "envelope" =>
              /\ Len(gout.pts) = 5
              /\ \A k \in 1..4 :
                    IsPointOf(gout.pts[k], Corners(gout.geom)[k][1],
                              Corners(gout.geom)[k][2], gout.geom)
              /\ IsPointOf(gout.pts[5],
                     JNum(gout.geom.xmin.i + gout.geom.xmax.i, 2),
                     JNum(gout.geom.ymin.i + gout.geom.ymax.i, 2), gout.geom)
        /\ gout.geom.shape = "polygon" =>
              LET ring == gout.geom.rings[1]
                  k == Len(ring) - 1
              IN  /\ Len(gout.pts) = k + 1
                  /\ \A j \in 1..k :
                        IsPointOf(gout.pts[j], JInt(ring[j][1]),
                                  JInt(ring[j][2]), gout.geom)
                  /\ \E x, y \in {gout.pts[k + 1].xmin, gout.pts[k + 1].ymin} :
                        IsPointOf(gout.pts[k + 1], x, y, gout.geom)

-----------------------------------------------------------------------------
(* Claims about has_ecosystem, checked under SpecResp *)

\* The pixel value of a raster response: the first value the response
\* carries under the pixel-value key of its module, absent if there is none.
PixelValue(resp) ==
    LET key(k) == IF resp.module = "geoenv"
                  THEN resp.json.results[k].uvpixel
                  ELSE resp.json.results[k].pixel
        with == {k \in DOMAIN resp.json.results : key(k).t # "absent"}
    IN  IF with = {} THEN JAbsent
        ELSE key(CHOOSE k \in with : \A j \in with : k <= j)

\* C14: has_ecosystem returns, for a raster (wte) response, True unless the
\* pixel value is "NoData" or absent, and for a vector (ecu, emu) response
\* True if and only if the response contains more than zero features.
C14_HasEcosystem ==
    rout.op = "has_ecosystem" =>
        /\ rout.exc = ""
        /\ rprev.source = "wte" =>
              rout.val = <<PixelValue(rprev) \notin {JStr(<<"NoData">>), JAbsent}>>
        /\ rprev.source # "wte" =>
              rout.val = <<Len(rprev.json.features) > 0>>

-----------------------------------------------------------------------------
(* Claims about the areal sampling of the raster server, checked under Spec *)

Areal(c) == geom_type(c) \in {"envelope", "polygon"}

\* The raster ecosystems attached to a Location, in order.
RasterEcosystems(loc) ==
    SelectSeq(loc.ecosystem, LAMBDA e : e.source = "wte")

\* The class an attached raster ecosystem stands for: its attribute labels.
ClassOf(e) == [a \in DOMAIN e.attributes |-> e.attributes[a].label]

SamplingDone == pc \in {"ecu", "emu", "append"} /\ Areal(gc[gi])

-----------------------------------------------------------------------------
(* Claims about datasets without a geographic coverage, checked under Spec *)

\* The next file of the loop is one eml_to_wte_json processes: it has no
\* output document yet, or existing documents are overwritten.
Processes(k) == outdir[k] = "absent" \/ overwrite

\* C16: for a dataset whose EML contains no geographic coverage,
\* eml_to_wte_json still writes the output document, holding the dataset
\* identifier and an empty location list, and issues no backend request for
\* the dataset.
C16_NoCoverageStillWritten ==
    [][(/\ pc = "file"
        /\ fi' = fi + 1
        /\ Processes(fi + 1)
        /\ gc' = <<>>)
       => (/\ outdir'[fi + 1] = "written"
           /\ base' = [dataset |-> fi + 1, location |-> <<>>]
           /\ calls' = NoCalls
           /\ pc' = "file")]_vars

C16_Witness ==
    /\ pc = "file"
    /\ fi = 2
    /\ gc = <<>>
    /\ outdir[1] = "written"
    /\ outdir[2] = "written"
    /\ base = [dataset |-> 2, location |-> <<>>]
    /\ calls = NoCalls

-----------------------------------------------------------------------------
(* Claims about a point over open ocean, checked under Spec *)

\* The three servers have answered for a point coverage: the raster server
\* NoData, the coastal server no feature and the marine server at least one
\* feature.
OpenOceanPoint ==
    /\ pc \in {"append", "raised"}
    /\ geom_type(gc[gi]) = "point"
    /\ answers["wte"] = "NoData"
    /\ answers["ecu"] = "empty"
    /\ answers["emu"] = "features"

\* C17: for a point coverage where the raster server returns NoData, the
\* coastal server zero features and the marine server at least one feature,
\* the Location holds no ecosystem of source wte or ecu and at least one of
\* source emu.
C17_OpenOceanHasMarineEcosystem ==
    OpenOceanPoint =>
        /\ pc = "append"
        /\ EcosystemCount(location, "wte") = 0
        /\ EcosystemCount(location, "ecu") = 0
        /\ EcosystemCount(location, "emu") >= 1

-----------------------------------------------------------------------------
(* Claims about the Attributes setters, checked under SpecResp *)

\* set_attributes has been applied to a bundle of the given source.
AttributesSet(source) ==
    /\ rout.op = "set_attributes"
    /\ r.source = source

\* The annotation text of the k-th attribute of the data just set.
AnnotationText(k) == rout.val[1].data[k].annotation.s[1]

\* "(" temperature "|" moisture ")"
ClimateGroup == "(" \o AnnotationText(1) \o "|" \o AnnotationText(2) \o ")"

\* C18: after set_wte_attributes on a raster attribute bundle returned by
\* the backend, the climate-region composite's annotation is the
\* parenthesised pipe-join of the temperature and moisture annotations, and
\* the class-name composite's annotation is that group pipe-joined with the
\* land-cover and land-form annotations.
C18_CompositesAreDerived ==
    (AttributesSet("wte") /\ Len(rout.val[1].unique) > 0) =>
        /\ rout.exc = ""
        /\ AnnotationText(5) = ClimateGroup
        /\ AnnotationText(6) =
              ClimateGroup \o "|" \o AnnotationText(3)
                           \o "|" \o AnnotationText(4)

\* The number of comma-separated tokens of the descriptor in the bundle
\* set_attributes was applied to: CSU_Descriptor for ecu, Name_2018 for emu.
DescriptorTokens ==
    IF r.source = "ecu" THEN Len(rout.val[1].unique.s)
    ELSE Len(rout.val[1].unique.Name_2018.s)

\* The number of atomic fields the descriptor is split over.
AtomicFields == IF r.source = "ecu" THEN EcuSchemaSize - 1 ELSE EmuSchemaSize - 2

\* set_ecu_attributes or set_emu_attributes has been applied to a bundle
\* whose descriptor is a string with fewer or more tokens than atomic fields.
TokenCountDiffers ==
    /\ rout.op = "set_attributes"
    /\ r.source \in {"ecu", "emu"}
    /\ rout.val[1].unique # EmptyBundle(r.source)
    /\ r.source = "emu" => rout.val[1].unique.Name_2018.t = "str"
    /\ DescriptorTokens # AtomicFields

\* C19: set_ecu_attributes and set_emu_attributes do not raise on a
\* descriptor with fewer or more tokens than the schema has atomic fields;
\* an atomic field without a token keeps a null label and the composite
\* descriptor is produced.
C19_TokenCountNeverRaises ==
    TokenCountDiffers =>
        /\ rout.exc = ""
        /\ LET data == rout.val[1].data
               first == IF r.source = "ecu" THEN 0 ELSE 1
           IN  /\ \A k \in 1..AtomicFields :
                     k > DescriptorTokens => IsNull(data[first + k].label)
               /\ ~IsNull(data[Len(data)].label)
               /\ ~IsNull(data[Len(data)].annotation)

\* The number of fields of the schema of a source.
SchemaSize(source) ==
    IF source = "wte" THEN WteSchemaSize
    ELSE IF source = "ecu" THEN EcuSchemaSize
    ELSE EmuSchemaSize

\* set_attributes has been applied to the empty bundle.
EmptyBundleSet ==
    /\ rout.op = "set_attributes"
    /\ rout.val[1].unique = EmptyBundle(r.source)

\* C20: for each source, set_*_attributes on an empty attribute bundle
\* leaves the Attributes data equal to a freshly initialised schema of the
\* source: the same fields, every label and annotation null.
C20_EmptyBundleChangesNothing ==
    EmptyBundleSet =>
        /\ rout.exc = ""
        /\ Len(rout.val[1].data) = SchemaSize(r.source)
        /\ \A k \in 1..Len(rout.val[1].data) :
              /\ IsNull(rout.val[1].data[k].label)
              /\ IsNull(rout.val[1].data[k].annotation)

C20_Witness ==
    /\ EmptyBundleSet
    /\ r.source = "emu"
    /\ rprev.json.features # <<>>
    /\ rout.exc = ""
    /\ Len(rout.val[1].data) = EmuSchemaSize
    /\ \A k \in 1..EmuSchemaSize : rout.val[1].data[k] = NoAttribute

-----------------------------------------------------------------------------
(* Claims about the file loop, checked under Spec *)

-----------------------------------------------------------------------------
(* Claims about the composition of the output document, checked under Spec *)

IsPrefix(p, q) == Len(p) <= Len(q) /\ SubSeq(q, 1, Len(p)) = p

\* C22: composition is append-only and nothing is shared.  While a dataset
\* is processed the Locations attached to its Base stay as they are and
\* Locations are only appended; within a coverage record the comments and
\* the ecosystems of its Location stay as they are and entries are only
\* appended; every coverage record starts from a Location without comments
\* and ecosystems, and every dataset from a Base without Locations.
C22_AppendOnly ==
    [][/\ fi' = fi => IsPrefix(base.location, base'.location)
       /\ fi' # fi => base'.location = <<>>
       /\ (fi' = fi /\ pc # "coverage")
            => /\ IsPrefix(location.comments, location'.comments)
               /\ IsPrefix(location.ecosystem, location'.ecosystem)
       /\ pc = "coverage"
            => /\ location'.comments = <<>>
               /\ location'.ecosystem = <<>>]_vars

\* Two coverage records of a dataset have been processed and their
\* Locations attached: the first one holds ecosystems, the second one none
\* and more comments.
C22_Witness ==
    /\ pc = "write"
    /\ alias
    /\ Len(base.location) = 2
    /\ base.location[1].ecosystem # <<>>
    /\ base.location[2].ecosystem = <<>>
    /\ base.location[2] = location
    /\ Len(location.comments) > Len(base.location[1].comments)

-----------------------------------------------------------------------------
(* Claims about the requests of a coverage record, checked under Spec *)

\* The requests a coverage record is to issue: one to the raster server for
\* each point to identify, one to the coastal and one to the marine server.
RequestsDue(c) == [wte |-> PointsToSample(c), ecu |-> 1, emu |-> 1]

\* Processing of the current coverage record has ended: its Location is
\* about to be attached, or an exception has left eml_to_wte_json.
RecordEnded == pc \in {"append", "raised"}

\* C23: for each coverage record the coastal and the marine server are
\* requested exactly once and the raster server exactly once per queried
\* point, whether the requests succeed or fail.
C23_EachBackendCalledOnce ==
    RecordEnded => calls = RequestsDue(gc[gi])

-----------------------------------------------------------------------------
(* Claims about malformed polygon vertices, checked under SpecGeom *)

\* An item of a gRing text that is not a pair of parseable numbers.
MalformedItem(x) == Len(x) < 2 \/ x[1].t # "int" \/ x[2].t # "int"

\* The rings _to_esri_polygon formats for a coverage record.
RingsToFormat(c) ==
    IF ~outer_gring(c).present THEN <<>>
    ELSE IF exclusion_gring(c).present
    THEN <<outer_gring(c), exclusion_gring(c)>>
    ELSE <<outer_gring(c)>>

\* to_esri_geometry was called on a polygon record one of whose rings lists
\* a malformed vertex pair.
MalformedPolygonConverted ==
    /\ gout.op = "to_esri_geometry"
    /\ geom_type(g) = "polygon"
    /\ \E k \in DOMAIN RingsToFormat(g) :
          \E i \in DOMAIN RingsToFormat(g)[k].items :
             MalformedItem(RingsToFormat(g)[k].items[i])

\* C24: a malformed vertex pair never makes to_esri_geometry fail: the
\* polygon is returned with each of its rings, the vertices of every ring
\* all emitted.
C24_MalformedVertexNeverFails ==
    MalformedPolygonConverted =>
        /\ gout.exc = ""
        /\ Len(gout.geom.rings) = Len(RingsToFormat(g))
        /\ \A k \in DOMAIN gout.geom.rings :
              Len(gout.geom.rings[k]) >= Len(RingsToFormat(g)[k].items)

-----------------------------------------------------------------------------
(* Claims about a coverage record without geometry, checked under Spec *)

\* The current coverage record has no usable geometry element and the
\* orchestrator is past the raster step for it.
NoGeometryRecord ==
    /\ gi > 0
    /\ geom_type(gc[gi]) = "None"
    /\ pc \in {"ecu", "emu", "append", "raised"}

\* C25: a coverage record of geometry type None is never fatal: no
\* exception leaves eml_to_wte_json for it and no ecosystem is recorded
\* for it.
C25_NoGeometryNeverFatal ==
    NoGeometryRecord =>
        /\ pc # "raised"
        /\ location.ecosystem = <<>>

-----------------------------------------------------------------------------
(* Claims about the buffer of the coastal query, checked under SpecGeom *)

\* a < b for two numbers.
JLess(a, b) == a.i * b.d < b.i * a.d

\* The geometry to_esri_geometry returns for the coverage record.
Given == to_esri_geometry(g).val

\* The envelope strictly encloses the point and keeps its other members.
Widened(e, pt) ==
    /\ e.shape = "envelope"
    /\ e.wkid = 4326
    /\ JLess(e.xmin, pt.xmin) /\ JLess(pt.xmax, e.xmax)
    /\ JLess(e.ymin, pt.ymin) /\ JLess(pt.ymax, e.ymax)
    /\ e.zmin = pt.zmin /\ e.zmax = pt.zmax

-----------------------------------------------------------------------------
(* Claims about the comments of a Location, checked under Spec *)

\* C27: whatever the backends answered for a coverage record, every entry
\* of the comments of its Location, and of every Location attached to the
\* Base, is a string and none is null.
C27_CommentsAreStrings ==
    /\ \A k \in DOMAIN location.comments : location.comments[k].t = "str"
    /\ \A n \in DOMAIN base.location :
          \A k \in DOMAIN base.location[n].comments :
             base.location[n].comments[k].t = "str"

-----------------------------------------------------------------------------
(* Claims about the comments of a raster response, checked under SpecResp *)

\* The response has a result whose pixel value, under the key the server
\* of the module answers with, is "NoData".
HasNoData(resp) ==
    \E k \in DOMAIN resp.json.results :
       (IF resp.module = "geoenv" THEN resp.json.results[k].uvpixel
        ELSE resp.json.results[k].pixel) = JStr(<<"NoData">>)

\* C28: get_comments("wte") returns the open-water comment exactly when the
\* raster response has a result whose pixel value is "NoData", in which
\* case has_ecosystem("wte") is False; it returns None when the response
\* carries a classification and when it has no result.
C28_CommentsAgreeOnNoData ==
    rout.op = "get_comments" =>
        /\ rout.val[1] = IF HasNoData(r)
                         THEN JStr(<<"WTE: Location is an area of water.">>)
                         ELSE JNull
        /\ HasNoData(r) => has_ecosystem(r, "wte") = Returned(FALSE)

-----------------------------------------------------------------------------
(* Claims about the marine query of a polygon, checked under SpecResp *)

\* get_unique_ecosystems("emu") was called on the response to a query made
\* with the geometry of a polygon coverage.
PolygonQueried ==
    /\ rout.op = "get_unique_ecosystems"
    /\ rprev.source = "emu"
    /\ rprev.geometry.shape = "polygon"

\* The depth range an envelope of the same coverage would carry does not
\* reach the marine unit.
OutOfReach(f) ==
    LET z == altitude_minimum(PolygonAtDepth).i IN
    ~(f.UnitBottom <= z /\ z <= f.UnitTop)

-----------------------------------------------------------------------------
(* Claims about descriptors of the expected length, checked under SpecResp *)

\* set_ecu_attributes or set_emu_attributes has been applied to a bundle
\* whose descriptor is a string with one token for each atomic field.
TokenCountMatches ==
    /\ rout.op = "set_attributes"
    /\ r.source \in {"ecu", "emu"}
    /\ rout.val[1].unique # EmptyBundle(r.source)
    /\ r.source = "emu" => rout.val[1].unique.Name_2018.t = "str"
    /\ DescriptorTokens = AtomicFields

\* The i-th comma-separated token of the descriptor, as the server wrote it.
DescriptorToken(i) ==
    IF r.source = "ecu" THEN rout.val[1].unique.s[i]
    ELSE rout.val[1].unique.Name_2018.s[i]

\* The position in the schema of the first field a token is assigned to:
\* the marine schema starts with OceanName.
FirstAtomic == IF r.source = "ecu" THEN 1 ELSE 2

\* The i-th token, without the blank after its comma, is the label of the
\* i-th atomic field.
TokensLabelAtomicFields ==
    \A i \in 1..AtomicFields :
        LET label == rout.val[1].data[FirstAtomic + i - 1].label
        IN  /\ label.t = "str"
            /\ Len(label.s) = 1
            /\ DescriptorToken(i) = (IF i = 1 THEN "" ELSE " ") \o label.s[1]

\* sep.join(strings)
RECURSIVE JoinedWith(_, _)
JoinedWith(sep, strings) ==
    IF Len(strings) = 0 THEN ""
    ELSE IF Len(strings) = 1 THEN strings[1]
    ELSE strings[1] \o sep \o JoinedWith(sep, Tail(strings))

\* The label of the last field is the labels of the fields from..last-1
\* joined with ", " (a null label reads "n/a"), and its annotation is their
\* annotations joined with "|".
CompositeJoins(from) ==
    LET data == rout.val[1].data
        last == Len(data)
        text(k) == IF IsNull(data[k].label) THEN "n/a" ELSE data[k].label.s[1]
    IN  /\ data[last].label =
              JStr([k \in 1..(last - from) |->
                      IF k = 1 THEN text(from)
                      ELSE " " \o text(from + k - 1)])
        /\ data[last].annotation =
              JStr(<<JoinedWith("|",
                       [k \in 1..(last - from) |->
                           data[from + k - 1].annotation.s[1]])>>)

\* C30 as stated: for a coastal or marine bundle whose descriptor has as
\* many tokens as the schema has atomic fields, the i-th token, trimmed, is
\* the label of the i-th atomic field, the composite descriptor's label is
\* the atomic labels joined with ", " and its annotation the atomic
\* annotations joined with "|".
C30_CompositeJoinsAtomicFields ==
    TokenCountMatches =>
        /\ rout.exc = ""
        /\ TokensLabelAtomicFields
        /\ CompositeJoins(FirstAtomic)

\* C30, amended: the tokens label the atomic fields in order, and the
\* composite descriptor joins every field before it, which for a marine
\* bundle starts with OceanName, carrying the bundle's ocean name.
C30_CompositeJoinsEveryField ==
    TokenCountMatches =>
        /\ rout.exc = ""
        /\ TokensLabelAtomicFields
        /\ r.source = "emu" =>
              rout.val[1].data[1].label = rout.val[1].unique.OceanName
        /\ CompositeJoins(1)

C30_Witness ==
    /\ TokenCountMatches
    /\ r.source = "emu"
    /\ rout.exc = ""
    /\ rout.val[1].unique.Name_2018 = JStr(CommaJoined(PartsEpipelagic))
    /\ rout.val[1].data[1].label = JStr(<<"Pacific">>)
    /\ rout.val[1].data[3].label = JStr(<<"Warm">>)
    /\ rout.val[1].data[EmuSchemaSize].label =
          JStr(CommaJoined(<<"Pacific">> \o PartsEpipelagic))

====
